---- MODULE Spec2Model ----
(***************************************************************************)
(* Ripple: the dependency graph (src/src/analysis/change-detector.ts,      *)
(* class DependencyGraph, lines 217-386) and the fingerprint cache         *)
(* (src/src/utils/cache-manager.ts over src/src/utils/lru-cache.ts).       *)
(***************************************************************************)
EXTENDS Integers, Sequences, FiniteSets, TLC

VARIABLES
    nodes,      \* DependencyGraph.nodes: identity key -> Symbol
    edges,      \* DependencyGraph.edges: the edge list, in insertion order
    nodeEdges,  \* DependencyGraph.nodeEdges: from-key -> outgoing edges
    call,       \* the graph method invoked last (or running), with its arguments
    pc,         \* "idle", or "traverse" while a transitive query is on the stack
    frames,     \* the call stack of traverse(): one frame per active invocation
    visited,    \* the closure variable `visited` of the running transitive query
    result,     \* the closure variable `result` of the running transitive query
    ret,        \* what the last completed query returned (a list of Symbols)
    cache,      \* LRUCache.cache of CacheManager.memoryCache: entries, oldest first
    fileFingerprints, \* CacheManager.fileFingerprints: path -> fingerprint
    files,      \* the file system: path -> what fs.promises.stat finds
    now,        \* Date.now()
    inflight,   \* the pending async calls of CacheManager.get / set
    done,       \* the CacheManager call that completed last, and what it returned
    lastSet     \* history: per path, the value and the file of the last completed set

graphVars == <<nodes, edges, nodeEdges>>
queryVars == <<call, pc, frames, visited, result, ret>>
cacheVars == <<cache, fileFingerprints, files, now, inflight, done, lastSet>>

-----------------------------------------------------------------------------
(* Bounds of the model. *)

MaxEdges == 2
MaxDepth == 3
MaxChain == 3
MaxSize == 1
TtlMs == 1
MaxTime == 2
MaxCalls == 1
LruMaxSize == 2
LruTtlMs == 1
MaxParams == 2
MaxRecords == 4
MaxEvents == 3
StepMs == 250
MaxClock == 1250
DEBOUNCE_MS == 500
MaxPending == 2
MaxLoads == 2
MaxConcurrent == 2
DefaultMaxDepth == 5

\* the sequences over S of length up to n
SeqsOf(S, n) == UNION {[1..k -> S] : k \in 0..n}

-----------------------------------------------------------------------------
(* Symbols.  A Symbol carries its identity (file, name, kind) and          *)
(* attributes that are not part of it (here the signature).  file = ""     *)
(* stands for a symbol with neither location.file nor filePath.            *)

Sym(file, name, kind, sig) ==
    [file |-> file, name |-> name, kind |-> kind, signature |-> sig]

SymF1 == Sym("a.ts", "f", "function", "f(a)")
SymF2 == Sym("a.ts", "f", "function", "f(a, b)")
SymG == Sym("a.ts", "g", "function", "g()")
SymH == Sym("", "h", "class", "")

Symbols == {SymF1, SymF2, SymG, SymH}

EdgeTypes == {"calls", "imports"}

GraphEdge(from, to, type) == [from |-> from, to |-> to, type |-> type]

\* the symbols the dependencies of a parse result name: the current versions
EdgeSymbols == {SymF2, SymG, SymH}

EdgeInputs == [from : EdgeSymbols, to : EdgeSymbols, type : EdgeTypes]

Depths == (-1 .. MaxDepth) \cup {DefaultMaxDepth}

\* DependencyGraph.getSymbolKey
getSymbolKey(symbol) ==
    LET file == IF symbol.file # "" THEN symbol.file ELSE "unknown"
    IN  file \o ":" \o symbol.name \o ":" \o symbol.kind

-----------------------------------------------------------------------------
(* The graph as a value, and its methods as functions on it. *)

Graph(n, e, ne) == [nodes |-> n, edges |-> e, nodeEdges |-> ne]

G == Graph(nodes, edges, nodeEdges)

EmptyGraph == Graph(<<>>, <<>>, <<>>)

\* Map.set on a key that may or may not be present (an existing key keeps its place)
MapSet(m, k, v) == [x \in DOMAIN m \cup {k} |-> IF x = k THEN v ELSE m[x]]

\* Map.delete
MapDelete(m, k) == [x \in DOMAIN m \ {k} |-> m[x]]

\* Map.get(k) || []
MapGetOrEmpty(m, k) == IF k \in DOMAIN m THEN m[k] ELSE <<>>

\* DependencyGraph.addNode
addNode(g, symbol) ==
    LET key == getSymbolKey(symbol)
    IN  IF key \notin DOMAIN g.nodes
        THEN [g EXCEPT !.nodes = MapSet(g.nodes, key, symbol),
                       !.nodeEdges = MapSet(g.nodeEdges, key, <<>>)]
        ELSE g

\* a slip in the predicate: the stored edge's endpoints compared crosswise
SameEdgeCrosswise(e, dependency) ==
    /\ getSymbolKey(e.from) = getSymbolKey(dependency.to)
    /\ getSymbolKey(e.to) = getSymbolKey(dependency.from)
    /\ e.type = dependency.type

\* the predicate of this.edges.find(...) in addEdge
SameEdge(e, dependency) ==
    /\ getSymbolKey(e.from) = getSymbolKey(dependency.from)
    /\ getSymbolKey(e.to) = getSymbolKey(dependency.to)
    /\ e.type = dependency.type

\* DependencyGraph.addEdge
addEdge(g, dependency) ==
    LET fromKey == getSymbolKey(dependency.from)
        g1 == addNode(g, dependency.from)
        g2 == addNode(g1, dependency.to)
        existingEdge == \E i \in 1..Len(g2.edges) : SameEdge(g2.edges[i], dependency)
    IN  IF ~existingEdge
        THEN [g2 EXCEPT !.edges = Append(g2.edges, dependency),
                        !.nodeEdges = MapSet(g2.nodeEdges, fromKey,
                            Append(MapGetOrEmpty(g2.nodeEdges, fromKey), dependency))]
        ELSE g2

\* a slip in the filter: only the edges going out of the node are dropped
KeepEdgeIntoNode(e, key) == getSymbolKey(e.from) # key

\* the filter predicate of removeNode: the edges that stay
KeepEdge(e, key) == getSymbolKey(e.from) # key /\ getSymbolKey(e.to) # key

\* a slip in removeNode: the edges go, the node stays
removeNodeEdgesOnly(g, symbol) ==
    LET key == getSymbolKey(symbol)
    IN  [nodes |-> g.nodes,
         edges |-> SelectSeq(g.edges, LAMBDA e : KeepEdge(e, key)),
         nodeEdges |-> MapDelete(g.nodeEdges, key)]

\* DependencyGraph.removeNode
removeNode(g, symbol) ==
    LET key == getSymbolKey(symbol)
    IN  [nodes |-> MapDelete(g.nodes, key),
         edges |-> SelectSeq(g.edges, LAMBDA e : KeepEdge(e, key)),
         nodeEdges |-> MapDelete(g.nodeEdges, key)]

\* DependencyGraph.clear
clear(g) == EmptyGraph

\* new Set<string>() filled by forEach, then Array.from: first occurrences, in order
OrderedSet(seq) ==
    LET F[i \in 0..Len(seq)] ==
            IF i = 0 THEN <<>>
            ELSE IF \E j \in 1..Len(F[i-1]) : F[i-1][j] = seq[i]
                 THEN F[i-1]
                 ELSE Append(F[i-1], seq[i])
    IN  F[Len(seq)]

\* .map(k => this.nodes.get(k)).filter(s => s !== undefined)
LookupNodes(g, keys) ==
    LET present == SelectSeq(keys, LAMBDA k : k \in DOMAIN g.nodes)
    IN  [i \in 1..Len(present) |-> g.nodes[present[i]]]

\* a slip in getDependents: the edges are filtered by their source
getDependentsBySource(g, symbol) ==
    LET key == getSymbolKey(symbol)
        hits == SelectSeq(g.edges, LAMBDA e : getSymbolKey(e.from) = key)
        dependents == OrderedSet([i \in 1..Len(hits) |-> getSymbolKey(hits[i].to)])
    IN  LookupNodes(g, dependents)

\* DependencyGraph.getDependents
getDependents(g, symbol) ==
    LET key == getSymbolKey(symbol)
        hits == SelectSeq(g.edges, LAMBDA e : getSymbolKey(e.to) = key)
        dependents == OrderedSet([i \in 1..Len(hits) |-> getSymbolKey(hits[i].from)])
    IN  LookupNodes(g, dependents)

\* DependencyGraph.getDependencies
getDependencies(g, symbol) ==
    LET key == getSymbolKey(symbol)
        hits == SelectSeq(g.edges, LAMBDA e : getSymbolKey(e.from) = key)
        dependencies == OrderedSet([i \in 1..Len(hits) |-> getSymbolKey(hits[i].to)])
    IN  LookupNodes(g, dependencies)

-----------------------------------------------------------------------------
(* The state after construction. *)

\* the graph a sequence of addEdge calls builds from the empty graph
BuildGraph(seq) ==
    LET F[i \in 0..Len(seq)] ==
            IF i = 0 THEN EmptyGraph ELSE addEdge(F[i-1], seq[i])
    IN  F[Len(seq)]

NoCall == [op |-> "none"]

GraphInit ==
    /\ nodes = <<>>
    /\ edges = <<>>
    /\ nodeEdges = <<>>

QueryInit ==
    /\ call = NoCall
    /\ pc = "idle"
    /\ frames = <<>>
    /\ visited = {}
    /\ result = <<>>
    /\ ret = <<>>

SetGraph(g) ==
    /\ nodes' = g.nodes
    /\ edges' = g.edges
    /\ nodeEdges' = g.nodeEdges

\* a void method returns: nothing of a query is left
Returned(c) ==
    /\ call' = c
    /\ pc' = "idle"
    /\ frames' = <<>>
    /\ visited' = {}
    /\ result' = <<>>

AddNode(symbol) ==
    /\ pc = "idle"
    /\ SetGraph(addNode(G, symbol))
    /\ Returned([op |-> "addNode", symbol |-> symbol])
    /\ ret' = <<>>

AddEdge(dependency) ==
    /\ pc = "idle"
    /\ SetGraph(addEdge(G, dependency))
    /\ Returned([op |-> "addEdge", edge |-> dependency])
    /\ ret' = <<>>

RemoveNode(symbol) ==
    /\ pc = "idle"
    /\ SetGraph(removeNode(G, symbol))
    /\ Returned([op |-> "removeNode", symbol |-> symbol])
    /\ ret' = <<>>

Clear ==
    /\ pc = "idle"
    /\ SetGraph(clear(G))
    /\ Returned([op |-> "clear"])
    /\ ret' = <<>>

GetDependents(symbol) ==
    /\ pc = "idle"
    /\ Returned([op |-> "getDependents", symbol |-> symbol])
    /\ ret' = getDependents(G, symbol)
    /\ UNCHANGED graphVars

GetDependencies(symbol) ==
    /\ pc = "idle"
    /\ Returned([op |-> "getDependencies", symbol |-> symbol])
    /\ ret' = getDependencies(G, symbol)
    /\ UNCHANGED graphVars

\* the number of edges the adjacency index holds, over all its entries
IndexSize(ne) ==
    LET keys == DOMAIN ne
        Sum[S \in SUBSET keys] ==
            IF S = {} THEN 0
            ELSE LET k == CHOOSE x \in S : TRUE IN Len(ne[k]) + Sum[S \ {k}]
    IN  Sum[keys]

\* the bound of the model: addEdge is called when the index (which holds at
\* least the edges of the edge list) holds at most MaxEdges edges after it
Bounded(dependency) == IndexSize(addEdge(G, dependency).nodeEdges) <= MaxEdges

-----------------------------------------------------------------------------
(* getTransitiveDependents / getTransitiveDependencies.  The two methods   *)
(* are the same text but for the one-hop query they expand; traverse() is  *)
(* recursive, so its call stack is state: a frame holds the list the       *)
(* forEach walks, the index of the next element and the frame's depth.     *)

Neighbours(g, op, symbol) ==
    IF op = "getTransitiveDependents"
    THEN getDependents(g, symbol)
    ELSE getDependencies(g, symbol)

\* if (depth > maxDepth) return
DepthExceeded(depth, maxDepth) == depth > maxDepth

\* a slip: the visited-set is never consulted
VisitedIgnored(v, key) == FALSE

\* if (visited.has(key)) return
Visited(v, key) == key \in v

\* whether traverse(current, depth) gets past its two early returns
Enters(v, maxDepth, current, depth) ==
    /\ ~DepthExceeded(depth, maxDepth)
    /\ ~Visited(v, getSymbolKey(current))

Frame(g, op, current, depth) ==
    [deps |-> Neighbours(g, op, current), i |-> 1, depth |-> depth]

\* the public method is called: traverse(symbol, 0)
StartTransitive(op, symbol, maxDepth) ==
    /\ pc = "idle"
    /\ call' = [op |-> op, symbol |-> symbol, maxDepth |-> maxDepth]
    /\ result' = <<>>
    /\ ret' = <<>>
    /\ IF Enters({}, maxDepth, symbol, 0)
       THEN /\ visited' = {getSymbolKey(symbol)}
            /\ frames' = <<Frame(G, op, symbol, 0)>>
            /\ pc' = "traverse"
       ELSE /\ visited' = {}
            /\ frames' = <<>>
            /\ pc' = "idle"
    /\ UNCHANGED graphVars

\* one iteration of dependents.forEach: result.push(dep); traverse(dep, depth + 1)
TraverseVisit ==
    /\ pc = "traverse"
    /\ LET top == frames[Len(frames)]
       IN  /\ top.i <= Len(top.deps)
           /\ LET dep == top.deps[top.i]
                  rest == [frames EXCEPT ![Len(frames)].i = top.i + 1]
              IN  /\ result' = Append(result, dep)
                  /\ IF Enters(visited, call.maxDepth, dep, top.depth + 1)
                     THEN /\ visited' = visited \cup {getSymbolKey(dep)}
                          /\ frames' = Append(rest, Frame(G, call.op, dep, top.depth + 1))
                     ELSE /\ visited' = visited
                          /\ frames' = rest
    /\ UNCHANGED <<graphVars, call, pc, ret>>

\* forEach is through: traverse returns, and the outermost return hands out result
TraverseReturn ==
    /\ pc = "traverse"
    /\ LET top == frames[Len(frames)]
       IN  top.i > Len(top.deps)
    /\ IF Len(frames) = 1
       THEN /\ pc' = "idle"
            /\ ret' = result
            /\ frames' = <<>>
            /\ visited' = {}
            /\ result' = <<>>
       ELSE /\ frames' = SubSeq(frames, 1, Len(frames) - 1)
            /\ UNCHANGED <<pc, ret, visited, result>>
    /\ UNCHANGED <<graphVars, call>>

TransitiveOps == {"getTransitiveDependents", "getTransitiveDependencies"}



-----------------------------------------------------------------------------
(* LRUCache (src/src/utils/lru-cache.ts).  The Map iterates in insertion   *)
(* order, so the cache is the sequence of its entries, oldest first.       *)

Undefined == "undefined"
Null == "null"

Entry(key, value, timestamp) == [key |-> key, value |-> value, timestamp |-> timestamp]

LRUHas(c, key) == \E i \in 1..Len(c) : c[i].key = key

LRUEntry(c, key) == c[CHOOSE i \in 1..Len(c) : c[i].key = key]

\* LRUCache.delete (no onEvict is given by CacheManager)
LRUDelete(c, key) == SelectSeq(c, LAMBDA e : e.key # key)

\* the constructor's options: ttlMs is `options.ttlMs ?? Infinity`
NoTtl == [given |-> FALSE, ms |-> 0]
Ttl(ms) == [given |-> TRUE, ms |-> ms]
LRUOptions(maxSize, ttlMs) == [maxSize |-> maxSize, ttlMs |-> ttlMs]

\* Date.now() - entry.timestamp > this.ttlMs
LRUCacheExpired(o, entry, t) == o.ttlMs.given /\ t - entry.timestamp > o.ttlMs.ms

\* a slip in get: the recency is not refreshed
LRUCacheGetNoRefresh(o, c, key, t) ==
    IF ~LRUHas(c, key)
    THEN [cache |-> c, value |-> Undefined]
    ELSE LET entry == LRUEntry(c, key)
         IN  IF LRUCacheExpired(o, entry, t)
             THEN [cache |-> LRUDelete(c, key), value |-> Undefined]
             ELSE [cache |-> c, value |-> entry.value]

\* a slip in get: the refreshed entry gets the time of the read
LRUCacheGetExtends(o, c, key, t) ==
    IF ~LRUHas(c, key)
    THEN [cache |-> c, value |-> Undefined]
    ELSE LET entry == LRUEntry(c, key)
         IN  IF LRUCacheExpired(o, entry, t)
             THEN [cache |-> LRUDelete(c, key), value |-> Undefined]
             ELSE [cache |-> Append(LRUDelete(c, key), Entry(key, entry.value, t)),
                   value |-> entry.value]

\* LRUCache.get: the cache after the call, and the value returned
LRUCacheGet(o, c, key, t) ==
    IF ~LRUHas(c, key)
    THEN [cache |-> c, value |-> Undefined]
    ELSE LET entry == LRUEntry(c, key)
         IN  IF LRUCacheExpired(o, entry, t)
             THEN [cache |-> LRUDelete(c, key), value |-> Undefined]
             ELSE [cache |-> Append(LRUDelete(c, key), entry), value |-> entry.value]

\* a slip in set: the key is not deleted first, so a full cache evicts its
\* oldest key even when the key is present, and Map.set overwrites in place
LRUCacheSetNoDelete(o, c, key, value, t) ==
    LET c2 == IF Len(c) >= o.maxSize /\ Len(c) > 0 THEN Tail(c) ELSE c
    IN  IF LRUHas(c2, key)
        THEN [i \in 1..Len(c2) |->
                 IF c2[i].key = key THEN Entry(key, value, t) ELSE c2[i]]
        ELSE Append(c2, Entry(key, value, t))

\* LRUCache.set; the oldest key of an empty Map is undefined, and deleting it
\* does nothing
LRUCacheSet(o, c, key, value, t) ==
    LET c1 == IF LRUHas(c, key) THEN LRUDelete(c, key) ELSE c
        c2 == IF Len(c1) >= o.maxSize /\ Len(c1) > 0 THEN Tail(c1) ELSE c1
    IN  Append(c2, Entry(key, value, t))

\* LRUCache.has: get(key) !== undefined
LRUCacheHas(o, c, key, t) ==
    LET got == LRUCacheGet(o, c, key, t)
    IN  [cache |-> got.cache, value |-> got.value # Undefined]

\* the cache of CacheManager: maxMemoryEntries and ttlMs are given
MemoryCacheOptions == LRUOptions(MaxSize, Ttl(TtlMs))

Expired(entry, t) == LRUCacheExpired(MemoryCacheOptions, entry, t)

LRUGet(c, key, t) == LRUCacheGet(MemoryCacheOptions, c, key, t)

LRUSet(c, key, value, t) == LRUCacheSet(MemoryCacheOptions, c, key, value, t)

\* LRUCache.keys
LRUKeys(c) == [i \in 1..Len(c) |-> c[i].key]

-----------------------------------------------------------------------------
(* CacheManager (src/src/utils/cache-manager.ts).  get and set are async:  *)
(* each awaits computeFingerprint, which awaits fs.promises.stat.  The     *)
(* hit/miss counters are left out: nothing reads them but getStats.        *)

Paths == {"a.ts", "b.ts"}
Values == {"v1", "v2"}

\* the calls of set: a.ts is the file under study, b.ts the other file, whose
\* part is to take the cache's capacity
SetInputs == {<<"a.ts", "v1">>, <<"a.ts", "v2">>, <<"b.ts", "v1">>}

\* the files the environment writes
WrittenPaths == {"a.ts"}

Missing == [exists |-> FALSE, mtimeMs |-> 0, size |-> 0]
Stat(mtimeMs, size) == [exists |-> TRUE, mtimeMs |-> mtimeMs, size |-> size]
FileStates == {Missing, Stat(1, 1), Stat(2, 1), Stat(1, 2)}

\* a slip in the template string: the size is left out
fingerprintOfMtimeOnly(file) ==
    IF file.exists THEN ToString(file.mtimeMs) ELSE ""

\* computeFingerprint, given what stat finds: `${mtimeMs}-${size}`, '' when stat throws
fingerprintOf(file) ==
    IF file.exists
    THEN ToString(file.mtimeMs) \o "-" \o ToString(file.size)
    ELSE ""

\* a slip in the comparison of get: !== for ===
CacheHitInverted(cached, cachedFingerprint, fingerprint) ==
    cached # Undefined /\ cachedFingerprint # fingerprint

\* cached && cachedFingerprint === fingerprint
CacheHit(cached, cachedFingerprint, fingerprint) ==
    cached # Undefined /\ cachedFingerprint = fingerprint

\* Map.get
MapGet(m, k) == IF k \in DOMAIN m THEN m[k] ELSE Undefined

CallIds == 1..MaxCalls

NoPending ==
    [op |-> "none", pc |-> "idle", path |-> "", value |-> Undefined,
     cached |-> Undefined, file |-> Missing, origin |-> Missing]

NoDone == [op |-> "none", path |-> "", ret |-> Undefined]

NoSet == [value |-> Undefined, file |-> Missing]

AllIdle == \A c \in CallIds : inflight[c].op = "none"

CacheInit ==
    /\ cache = <<>>
    /\ fileFingerprints = <<>>
    /\ files = [p \in Paths |-> Stat(1, 1)]
    /\ now = 0
    /\ inflight = [c \in CallIds |-> NoPending]
    /\ done = NoDone
    /\ lastSet = [p \in Paths |-> NoSet]

\* get, up to its first await: memoryCache.get, then stat is issued; origin is
\* history: the file as the set that stored the entry read here found it
CacheGetStart(c, filePath) ==
    /\ inflight[c].op = "none"
    /\ LET got == LRUGet(cache, filePath, now)
       IN  /\ cache' = got.cache
           /\ inflight' = [inflight EXCEPT ![c] =
                 [NoPending EXCEPT !.op = "get", !.pc = "stat", !.path = filePath,
                                   !.cached = got.value,
                                   !.origin = IF got.value = Undefined THEN Missing
                                              ELSE lastSet[filePath].file]]
    /\ UNCHANGED <<fileFingerprints, files, now, done, lastSet>>

\* set, up to its first await: stat is issued
CacheSetStart(c, filePath, value) ==
    /\ inflight[c].op = "none"
    /\ inflight' = [inflight EXCEPT ![c] =
          [NoPending EXCEPT !.op = "set", !.pc = "stat", !.path = filePath,
                            !.value = value]]
    /\ UNCHANGED <<cache, fileFingerprints, files, now, done, lastSet>>

\* fs.promises.stat settles with what the file is at that moment
CacheStat(c) ==
    /\ inflight[c].pc = "stat"
    /\ inflight' = [inflight EXCEPT ![c].pc = "resume",
                                    ![c].file = files[inflight[c].path]]
    /\ UNCHANGED <<cache, fileFingerprints, files, now, done, lastSet>>

\* CacheManager.invalidate, on the two maps
invalidate(c, ff, filePath) ==
    [cache |-> LRUDelete(c, filePath), fileFingerprints |-> MapDelete(ff, filePath)]

\* get, after the await
CacheGetFinish(c) ==
    /\ inflight[c].op = "get" /\ inflight[c].pc = "resume"
    /\ LET call_ == inflight[c]
           fingerprint == fingerprintOf(call_.file)
           cachedFingerprint == MapGet(fileFingerprints, call_.path)
           hit == CacheHit(call_.cached, cachedFingerprint, fingerprint)
           inv == invalidate(cache, fileFingerprints, call_.path)
       IN  /\ cache' = IF hit THEN cache ELSE inv.cache
           /\ fileFingerprints' = IF hit THEN fileFingerprints ELSE inv.fileFingerprints
           /\ done' = [op |-> "get", path |-> call_.path,
                       ret |-> IF hit THEN call_.cached ELSE Null]
    /\ inflight' = [inflight EXCEPT ![c] = NoPending]
    /\ UNCHANGED <<files, now, lastSet>>

\* set, after the await
CacheSetFinish(c) ==
    /\ inflight[c].op = "set" /\ inflight[c].pc = "resume"
    /\ LET call_ == inflight[c]
           fingerprint == fingerprintOf(call_.file)
       IN  /\ fileFingerprints' = MapSet(fileFingerprints, call_.path, fingerprint)
           /\ cache' = LRUSet(cache, call_.path, call_.value, now)
           /\ done' = [op |-> "set", path |-> call_.path, ret |-> Undefined]
           /\ lastSet' = [lastSet EXCEPT ![call_.path] =
                            [value |-> call_.value, file |-> call_.file]]
    /\ inflight' = [inflight EXCEPT ![c] = NoPending]
    /\ UNCHANGED <<files, now>>

\* CacheManager.invalidate
CacheInvalidate(filePath) ==
    /\ LET inv == invalidate(cache, fileFingerprints, filePath)
       IN  cache' = inv.cache /\ fileFingerprints' = inv.fileFingerprints
    /\ done' = [NoDone EXCEPT !.op = "invalidate", !.path = filePath]
    /\ UNCHANGED <<files, now, inflight, lastSet>>

\* CacheManager.invalidatePattern; a pattern is the set of paths it matches
CacheInvalidatePattern(matches) ==
    /\ cache' = SelectSeq(cache, LAMBDA e : e.key \notin matches)
    /\ fileFingerprints' =
          [p \in DOMAIN fileFingerprints \ (matches \cap {cache[i].key : i \in 1..Len(cache)}) |->
              fileFingerprints[p]]
    /\ done' = [NoDone EXCEPT !.op = "invalidatePattern"]
    /\ UNCHANGED <<files, now, inflight, lastSet>>

\* CacheManager.clear
CacheClear ==
    /\ cache' = <<>>
    /\ fileFingerprints' = <<>>
    /\ done' = [NoDone EXCEPT !.op = "clear"]
    /\ UNCHANGED <<files, now, inflight, lastSet>>

\* the environment: a file is written, created or deleted
FileWrite(filePath, file) ==
    /\ files[filePath] # file
    /\ files' = [files EXCEPT ![filePath] = file]
    /\ UNCHANGED <<cache, fileFingerprints, now, inflight, done, lastSet>>

\* the environment: time passes
Tick ==
    /\ now < MaxTime
    /\ now' = now + 1
    /\ UNCHANGED <<cache, fileFingerprints, files, inflight, done, lastSet>>

\* the calls of the cache one after the other: a call is made when none is pending
CacheNext ==
    \/ \E c \in CallIds, p \in Paths : AllIdle /\ CacheGetStart(c, p)
    \/ \E c \in CallIds, i \in SetInputs : AllIdle /\ CacheSetStart(c, i[1], i[2])
    \/ \E c \in CallIds : CacheStat(c)
    \/ \E c \in CallIds : CacheGetFinish(c)
    \/ \E c \in CallIds : CacheSetFinish(c)
    \/ \E p \in Paths : AllIdle /\ CacheInvalidate(p)
    \/ \E m \in SUBSET Paths : AllIdle /\ CacheInvalidatePattern(m)
    \/ AllIdle /\ CacheClear
    \/ \E p \in WrittenPaths, f \in FileStates : FileWrite(p, f)
    \/ Tick

-----------------------------------------------------------------------------
(* An LRUCache of its own (src/src/utils/lru-cache.ts), with the options   *)
(* its constructor was given, under calls of get, set, has, delete and     *)
(* clear while time passes.                                                *)

VARIABLES
    lruOptions, \* LRUCache.maxSize and LRUCache.ttlMs
    lruCache,   \* LRUCache.cache: entries, oldest first
    lruDone,    \* the call that completed last, what it returned, the cache before it
    touched,    \* history: the keys in the order of their last get, has or set
    setAt       \* history: per key, the time of its most recent set, if any

lruVars == <<lruOptions, lruCache, lruDone, touched, setAt>>

LruKeys == {"k" \o ToString(i) : i \in 1..(LruMaxSize + 1)}

LruOptionsInputs ==
    {LRUOptions(n, ttl) : n \in 1..LruMaxSize,
                          ttl \in {NoTtl} \cup {Ttl(ms) : ms \in 0..LruTtlMs}}

NoLruCall == [op |-> "none", key |-> "", ret |-> Undefined, before |-> <<>>]

LruCall(op, key, r) == [op |-> op, key |-> key, ret |-> r, before |-> lruCache]

\* the key moves to the most recent end of the history
Touch(s, key) == Append(SelectSeq(s, LAMBDA k : k # key), key)

LruNew(o) ==
    /\ lruOptions = o
    /\ lruCache = <<>>
    /\ lruDone = NoLruCall
    /\ touched = <<>>
    /\ setAt = [k \in LruKeys |-> <<>>]

LruGet(key) ==
    /\ LET got == LRUCacheGet(lruOptions, lruCache, key, now)
       IN  /\ lruCache' = got.cache
           /\ lruDone' = LruCall("get", key, got.value)
    /\ touched' = Touch(touched, key)
    /\ UNCHANGED <<lruOptions, setAt>>

LruSet(key, value) ==
    /\ lruCache' = LRUCacheSet(lruOptions, lruCache, key, value, now)
    /\ lruDone' = LruCall("set", key, Undefined)
    /\ touched' = Touch(touched, key)
    /\ setAt' = [setAt EXCEPT ![key] = <<now>>]
    /\ UNCHANGED lruOptions

\* has is get(key) !== undefined: it touches the key as get does
LruHas(key) ==
    /\ LET got == LRUCacheHas(lruOptions, lruCache, key, now)
       IN  /\ lruCache' = got.cache
           /\ lruDone' = LruCall("has", key, got.value)
    /\ touched' = Touch(touched, key)
    /\ UNCHANGED <<lruOptions, setAt>>

\* delete returns what Map.delete returns
LruDelete(key) ==
    /\ lruCache' = LRUDelete(lruCache, key)
    /\ lruDone' = LruCall("delete", key, LRUHas(lruCache, key))
    /\ UNCHANGED <<lruOptions, touched, setAt>>

LruClear ==
    /\ lruCache' = <<>>
    /\ lruDone' = LruCall("clear", "", Undefined)
    /\ UNCHANGED <<lruOptions, touched, setAt>>

LruNext ==
    \/ \E k \in LruKeys : LruGet(k) /\ UNCHANGED cacheVars
    \/ \E k \in LruKeys, v \in Values : LruSet(k, v) /\ UNCHANGED cacheVars
    \/ \E k \in LruKeys : LruHas(k) /\ UNCHANGED cacheVars
    \/ \E k \in LruKeys : LruDelete(k) /\ UNCHANGED cacheVars
    \/ LruClear /\ UNCHANGED cacheVars
    \/ Tick /\ UNCHANGED lruVars

-----------------------------------------------------------------------------
(* ImpactAnalyzer.detectBreakingChanges                                    *)
(* (src/src/analysis/dependency-install-impact.ts, lines 292-470), a pure  *)
(* function of the old version of a symbol (or none), the new version and  *)
(* the affected locations.  An optional value is the empty sequence or the *)
(* sequence of the value.                                                  *)

VARIABLES
    bcOld,       \* the argument oldSymbol: None, or Some(symbol)
    bcNew,       \* the argument newSymbol
    bcLocations, \* the argument affectedLocations
    bcResult,    \* what the call returned: None for null, or Some(verdict)
    bcPc         \* "call" before detectBreakingChanges runs, "returned" after

bcVars == <<bcOld, bcNew, bcLocations, bcResult, bcPc>>

None == <<>>
Some(x) == <<x>>

Parameter(name, type, optional) == [name |-> name, type |-> type, optional |-> optional]

\* the fields of a Symbol the analyzer reads; parameters is None when the
\* symbol has no parameter list
Version(name, signature, parameters, returnType) ==
    [name |-> name, signature |-> signature, parameters |-> parameters,
     returnType |-> returnType]

ParameterInputs ==
    {Parameter("a", "number", FALSE), Parameter("a", "string", FALSE),
     Parameter("b", "number", FALSE), Parameter("b", "number", TRUE)}

ParameterLists == {None} \cup {Some(l) : l \in SeqsOf(ParameterInputs, MaxParams)}

Signatures == {Undefined, "", "(a: number) => void", "(a: number, b: number) => void"}

ReturnTypes == {Undefined, "void", "number"}

OldVersions ==
    {Version("f", s, ps, r) : s \in Signatures, ps \in ParameterLists, r \in ReturnTypes}

NewVersions ==
    {Version(n, s, ps, r) :
        n \in {"f", ""}, s \in Signatures, ps \in ParameterLists, r \in ReturnTypes}

Location(file, line) == [file |-> file, line |-> line, column |-> 0]

LocationLists ==
    {<<>>, <<Location("b.ts", 1), Location("b.ts", 2), Location("c.ts", 1)>>}

\* array.join(', ')
Join(names) ==
    LET F[i \in 0..Len(names)] ==
            IF i = 0 THEN ""
            ELSE IF i = 1 THEN names[1]
            ELSE F[i-1] \o ", " \o names[i]
    IN  F[Len(names)]

Names(params) == [i \in 1..Len(params) |-> params[i].name]

\* JSON.stringify of a Parameter[]
JSONStringify(params) ==
    "[" \o Join([i \in 1..Len(params) |->
                    "{name:" \o params[i].name \o ",type:" \o params[i].type
                    \o ",optional:" \o ToString(params[i].optional) \o "}"]) \o "]"

\* !x, for a string or undefined
Falsy(x) == x = Undefined \/ x = ""

\* x || 'unknown', for a string or undefined
OrUnknown(x) == IF Falsy(x) THEN "unknown" ELSE x

\* symbol.parameters || []
ParametersOf(symbol) ==
    IF symbol.parameters = None THEN <<>> ELSE symbol.parameters[1]

Finding(severity, description) == [severity |-> severity, description |-> description]

detectSignatureChange(oldSymbol, newSymbol) ==
    IF oldSymbol.signature = newSymbol.signature
    THEN None
    ELSE LET description ==
                 "Signature changed from \"" \o OrUnknown(oldSymbol.signature)
                 \o "\" to \"" \o OrUnknown(newSymbol.signature) \o "\""
         IN  IF Falsy(oldSymbol.signature) \/ Falsy(newSymbol.signature)
             THEN Some(Finding("critical", description))
             ELSE Some(Finding("warning", description))

HasName(params, name) == \E i \in 1..Len(params) : params[i].name = name

\* a slip in the order of the checks: added optional parameters are looked
\* for first, before removed and added required ones
detectParameterChangeOptionalFirst(oldSymbol, newSymbol) ==
    LET oldParams == ParametersOf(oldSymbol)
        newParams == ParametersOf(newSymbol)
        removedParams == SelectSeq(oldParams, LAMBDA old : ~HasName(newParams, old.name))
        addedRequiredParams ==
            SelectSeq(newParams, LAMBDA newP : ~newP.optional /\ ~HasName(oldParams, newP.name))
        addedOptionalParams ==
            SelectSeq(newParams, LAMBDA newP : newP.optional /\ ~HasName(oldParams, newP.name))
    IN  IF Len(oldParams) = Len(newParams)
           /\ JSONStringify(oldParams) = JSONStringify(newParams)
        THEN None
        ELSE IF Len(addedOptionalParams) > 0
        THEN Some(Finding("safe",
                "Optional parameters added: " \o Join(Names(addedOptionalParams))))
        ELSE IF Len(removedParams) > 0
        THEN Some(Finding("critical",
                "Parameters removed: " \o Join(Names(removedParams))))
        ELSE IF Len(addedRequiredParams) > 0
        THEN Some(Finding("critical",
                "Required parameters added: " \o Join(Names(addedRequiredParams))))
        ELSE Some(Finding("warning", "Parameters modified"))

detectParameterChange(oldSymbol, newSymbol) ==
    LET oldParams == ParametersOf(oldSymbol)
        newParams == ParametersOf(newSymbol)
        removedParams == SelectSeq(oldParams, LAMBDA old : ~HasName(newParams, old.name))
        addedRequiredParams ==
            SelectSeq(newParams, LAMBDA newP : ~newP.optional /\ ~HasName(oldParams, newP.name))
        addedOptionalParams ==
            SelectSeq(newParams, LAMBDA newP : newP.optional /\ ~HasName(oldParams, newP.name))
        \* newParams.find(newP => newP.name === old.name): the first of that name
        typeChangedParams ==
            SelectSeq(oldParams, LAMBDA old :
                /\ HasName(newParams, old.name)
                /\ LET i == CHOOSE j \in 1..Len(newParams) :
                                /\ newParams[j].name = old.name
                                /\ \A k \in 1..(j-1) : newParams[k].name # old.name
                   IN  newParams[i].type # old.type)
    IN  IF Len(oldParams) = Len(newParams)
           /\ JSONStringify(oldParams) = JSONStringify(newParams)
        THEN None
        ELSE IF Len(removedParams) > 0
        THEN Some(Finding("critical",
                "Parameters removed: " \o Join(Names(removedParams))))
        ELSE IF Len(addedRequiredParams) > 0
        THEN Some(Finding("critical",
                "Required parameters added: " \o Join(Names(addedRequiredParams))))
        ELSE IF Len(addedOptionalParams) > 0
        THEN Some(Finding("safe",
                "Optional parameters added: " \o Join(Names(addedOptionalParams))))
        ELSE IF Len(typeChangedParams) > 0
        THEN Some(Finding("warning",
                "Parameter types changed: " \o Join(Names(typeChangedParams))))
        ELSE Some(Finding("warning", "Parameters modified"))

\* both branches of the source give 'warning'
detectReturnTypeChange(oldSymbol, newSymbol) ==
    IF oldSymbol.returnType = newSymbol.returnType
    THEN None
    ELSE Some(Finding("warning",
            "Return type changed from \"" \o OrUnknown(oldSymbol.returnType)
            \o "\" to \"" \o OrUnknown(newSymbol.returnType) \o "\""))

calculateImpact(affectedLocations) ==
    [filesAffected |->
        Cardinality({affectedLocations[i].file : i \in 1..Len(affectedLocations)}),
     callSitesAffected |-> Len(affectedLocations),
     estimatedLOC |-> Len(affectedLocations) * 2]

BreakingChange(symbol, changeType, finding, affectedLocations) ==
    [symbol |-> symbol, changeType |-> changeType, severity |-> finding.severity,
     description |-> finding.description, affectedLocations |-> affectedLocations,
     estimatedImpact |-> calculateImpact(affectedLocations)]

\* a slip in the first check: a missing old symbol is taken for a removal
detectBreakingChangesNoOld(oldSymbol, newSymbol, affectedLocations) ==
    Some(BreakingChange(newSymbol, "removal",
            Finding("critical", "Symbol has been removed"), affectedLocations))

\* a slip in the order of the checks: parameters before signature
detectBreakingChangesParametersFirst(oldSymbol, newSymbol, affectedLocations) ==
    IF oldSymbol = None THEN None
    ELSE LET old == oldSymbol[1]
             signatureChange == detectSignatureChange(old, newSymbol)
             parameterChange == detectParameterChange(old, newSymbol)
         IN  IF parameterChange # None
             THEN Some(BreakingChange(newSymbol, "parameter", parameterChange[1],
                                      affectedLocations))
             ELSE IF signatureChange # None
             THEN Some(BreakingChange(newSymbol, "signature", signatureChange[1],
                                      affectedLocations))
             ELSE None

detectBreakingChanges(oldSymbol, newSymbol, affectedLocations) ==
    IF oldSymbol = None THEN None
    ELSE LET old == oldSymbol[1]
             signatureChange == detectSignatureChange(old, newSymbol)
             parameterChange == detectParameterChange(old, newSymbol)
             returnTypeChange == detectReturnTypeChange(old, newSymbol)
         IN  IF newSymbol.name = ""
             THEN Some(BreakingChange(old, "removal",
                        Finding("critical",
                                "Symbol \"" \o old.name \o "\" has been removed"),
                        affectedLocations))
             ELSE IF signatureChange # None
             THEN Some(BreakingChange(newSymbol, "signature", signatureChange[1],
                                      affectedLocations))
             ELSE IF parameterChange # None
             THEN Some(BreakingChange(newSymbol, "parameter", parameterChange[1],
                                      affectedLocations))
             ELSE IF returnTypeChange # None
             THEN Some(BreakingChange(newSymbol, "type", returnTypeChange[1],
                                      affectedLocations))
             ELSE None

BcIdle ==
    /\ bcOld = None
    /\ bcNew = Version("", Undefined, None, Undefined)
    /\ bcLocations = <<>>
    /\ bcResult = None
    /\ bcPc = "returned"

BcInit ==
    /\ bcOld \in {None} \cup {Some(v) : v \in OldVersions}
    /\ bcNew \in NewVersions
    /\ bcLocations \in LocationLists
    /\ bcResult = None
    /\ bcPc = "call"

DetectBreakingChanges ==
    /\ bcPc = "call"
    /\ bcResult' = detectBreakingChanges(bcOld, bcNew, bcLocations)
    /\ bcPc' = "returned"
    /\ UNCHANGED <<bcOld, bcNew, bcLocations>>

-----------------------------------------------------------------------------
(* ChangeDetector (src/src/analysis/change-detector.ts, lines 10-97): the  *)
(* versions recorded per identity key, and the log of changes.             *)

VARIABLES
    symbolHistory, \* ChangeDetector.symbolHistory: key -> versions, oldest first
    changes,       \* ChangeDetector.changes
    cdDone,        \* the ChangeDetector call that completed last, and what it returned
    recorded       \* history: the arguments of the recordSymbol calls, in order

cdVars == <<symbolHistory, changes, cdDone, recorded>>

\* a Symbol with the fields the change detection reads
FullSym(file, name, kind, signature, parameters, returnType) ==
    [file |-> file, name |-> name, kind |-> kind, signature |-> signature,
     parameters |-> parameters, returnType |-> returnType]

ParamsA == Some(<<Parameter("a", "number", FALSE)>>)
ParamsAB == Some(<<Parameter("a", "number", FALSE), Parameter("b", "number", FALSE)>>)

\* three versions of a.ts:f:function, the third equal to the first but for the
\* return type; a function g of the same file; a class f of the same file
FullF1 == FullSym("a.ts", "f", "function", "(a: number) => void", ParamsA, "void")
FullF2 == FullSym("a.ts", "f", "function", "(a: number, b: number) => void", ParamsAB, "void")
FullF3 == FullSym("a.ts", "f", "function", "(a: number) => void", ParamsA, "number")
FullG == FullSym("a.ts", "g", "function", Undefined, Some(<<>>), Undefined)
FullClassF == FullSym("a.ts", "f", "class", Undefined, None, Undefined)

FullSymbols == {FullF1, FullF2, FullF3, FullG, FullClassF}

\* ChangeDetector.getSymbolKey: no fallback for a missing file
historyKey(symbol) == symbol.file \o ":" \o symbol.name \o ":" \o symbol.kind

\* JSON.stringify(symbol.parameters): undefined for a missing list
JSONStringifyOptional(parameters) ==
    IF parameters = None THEN Undefined ELSE JSONStringify(parameters[1])

\* a slip in the comparison: the return types are not compared
hasChangedNoReturnType(oldSymbol, newSymbol) ==
    \/ oldSymbol.signature # newSymbol.signature
    \/ JSONStringifyOptional(oldSymbol.parameters) # JSONStringifyOptional(newSymbol.parameters)

hasChanged(oldSymbol, newSymbol) ==
    \/ oldSymbol.signature # newSymbol.signature
    \/ JSONStringifyOptional(oldSymbol.parameters) # JSONStringifyOptional(newSymbol.parameters)
    \/ oldSymbol.returnType # newSymbol.returnType

changeTypeOf(oldSymbol, newSymbol) ==
    IF Falsy(oldSymbol.signature) /\ ~Falsy(newSymbol.signature) THEN "added"
    ELSE IF ~Falsy(oldSymbol.signature) /\ Falsy(newSymbol.signature) THEN "removed"
    ELSE IF oldSymbol.signature # newSymbol.signature THEN "signature"
    ELSE IF oldSymbol.returnType # newSymbol.returnType THEN "type"
    ELSE "modified"

CodeChange(symbol, oldSymbol, changeType, timestamp) ==
    [symbol |-> symbol, oldSymbol |-> oldSymbol, changeType |-> changeType,
     timestamp |-> timestamp]

\* a slip in the index: the most recent version is returned
getLastSymbolMostRecent(h, symbol) ==
    LET history == MapGetOrEmpty(h, historyKey(symbol))
    IN  IF Len(history) < 2 THEN None ELSE Some(history[Len(history)])

\* ChangeDetector.getLastSymbol, on the map h
getLastSymbol(h, symbol) ==
    LET history == MapGetOrEmpty(h, historyKey(symbol))
    IN  IF Len(history) < 2 THEN None ELSE Some(history[Len(history) - 1])

NoCdCall == [op |-> "none", symbol |-> None, ret |-> None]

CdNew ==
    /\ symbolHistory = <<>>
    /\ changes = <<>>
    /\ cdDone = NoCdCall
    /\ recorded = <<>>

\* ChangeDetector.recordSymbol at time t, on the two fields
recordSymbol(cd, symbol, t) ==
    LET key == historyKey(symbol)
        history == MapGetOrEmpty(cd.symbolHistory, key)
    IN  [symbolHistory |-> MapSet(cd.symbolHistory, key, Append(history, symbol)),
         changes |->
            IF Len(history) > 0 /\ hasChanged(history[Len(history)], symbol)
            THEN Append(cd.changes,
                    CodeChange(symbol, history[Len(history)],
                               changeTypeOf(history[Len(history)], symbol), t))
            ELSE cd.changes]

RecordSymbol(symbol) ==
    LET cd == recordSymbol([symbolHistory |-> symbolHistory, changes |-> changes],
                           symbol, now)
    IN  /\ symbolHistory' = cd.symbolHistory
        /\ changes' = cd.changes
        /\ cdDone' = [op |-> "recordSymbol", symbol |-> Some(symbol), ret |-> None]
        /\ recorded' = Append(recorded, symbol)

GetLastSymbol(symbol) ==
    /\ cdDone' = [op |-> "getLastSymbol", symbol |-> Some(symbol),
                  ret |-> getLastSymbol(symbolHistory, symbol)]
    /\ UNCHANGED <<symbolHistory, changes, recorded>>

ClearChanges ==
    /\ changes' = <<>>
    /\ cdDone' = [op |-> "clearChanges", symbol |-> None, ret |-> None]
    /\ UNCHANGED <<symbolHistory, recorded>>

CdNext ==
    \/ \E s \in FullSymbols :
          Len(recorded) < MaxRecords /\ RecordSymbol(s) /\ UNCHANGED cacheVars
    \/ \E s \in FullSymbols : GetLastSymbol(s) /\ UNCHANGED cacheVars
    \/ ClearChanges /\ UNCHANGED cacheVars
    \/ Tick /\ UNCHANGED cdVars

-----------------------------------------------------------------------------
(* RealTimeImpactAnalyzer (src/unnamed/part_001, lines 26-240).            *)
(* analyzeEdit and analyzeDelete are async but await nothing: each runs to *)
(* its return in one step.  They read the graph, the symbol the parser     *)
(* finds at the edit position and the ChangeDetector's history.  The line  *)
(* of an edge's location is not modelled.                                  *)

VARIABLES
    impactCall, \* the call made last: the method, the change, what the parser found
    impact      \* what it returned: None for null, or Some(EditImpact)

impactVars == <<impactCall, impact>>

\* a content change: whether it replaces text (rangeLength > 0) and whether
\* it brings text (text.length > 0)
Change(textBefore, textAfter) == [textBefore |-> textBefore, textAfter |-> textAfter]

ChangeInputs == {Change(b, a) : b \in BOOLEAN, a \in BOOLEAN}

detectChangeType(change) ==
    IF ~change.textBefore /\ change.textAfter THEN "add"
    ELSE IF change.textBefore /\ ~change.textAfter THEN "delete"
    ELSE "modify"

calculateSeverity(changeType, symbol) ==
    IF changeType = "delete" THEN "critical"
    ELSE IF changeType = "modify" /\ symbol.kind = "function" THEN "warning"
    ELSE "safe"

getReason(changeType, symbol) ==
    IF changeType = "delete"
    THEN "Calls deleted " \o symbol.kind \o " \"" \o symbol.name \o "\""
    ELSE IF changeType = "modify"
    THEN "Uses modified " \o symbol.kind \o " \"" \o symbol.name \o "\""
    ELSE IF changeType = "add"
    THEN "May need to use new " \o symbol.kind \o " \"" \o symbol.name \o "\""
    ELSE "Depends on " \o symbol.name

\* DependencyGraph.getEdgesForSymbol: the edges with the symbol at either end
getEdgesForSymbol(g, symbol) ==
    LET key == getSymbolKey(symbol)
    IN  SelectSeq(g.edges, LAMBDA e :
            getSymbolKey(e.from) = key \/ getSymbolKey(e.to) = key)

AffectedFile(file, reason, severity) ==
    [file |-> file, reason |-> reason, severity |-> severity]

Min(a, b) == IF a < b THEN a ELSE b

\* a slip in the score: the weight of the change type is left out
calculateRiskScoreNoWeight(changeType, affectedFiles, breakingChanges) ==
    LET criticalCount == Len(SelectSeq(affectedFiles, LAMBDA f : f.severity = "critical"))
    IN  Min(Min(Len(affectedFiles) * 5, 30) + Len(breakingChanges) * 10
            + criticalCount * 5, 100)

calculateRiskScore(changeType, affectedFiles, breakingChanges) ==
    LET weight == IF changeType = "delete" THEN 50
                  ELSE IF changeType = "modify" THEN 30
                  ELSE 10
        criticalCount == Len(SelectSeq(affectedFiles, LAMBDA f : f.severity = "critical"))
    IN  Min(weight + Min(Len(affectedFiles) * 5, 30) + Len(breakingChanges) * 10
            + criticalCount * 5, 100)

estimateEffort(riskScore, affectedFilesCount) ==
    IF riskScore >= 85 \/ affectedFilesCount > 50 THEN "critical"
    ELSE IF riskScore >= 60 \/ affectedFilesCount > 20 THEN "high"
    ELSE IF riskScore >= 30 \/ affectedFilesCount > 10 THEN "medium"
    ELSE "low"

EditImpact(type, file, symbol, affectedFiles, breakingChanges) ==
    LET riskScore == calculateRiskScore(type, affectedFiles, breakingChanges)
    IN  [type |-> type, location |-> [file |-> file], symbol |-> symbol,
         affectedFiles |-> affectedFiles, breakingChanges |-> breakingChanges,
         riskScore |-> riskScore,
         estimatedEffort |-> estimateEffort(riskScore, Len(affectedFiles))]

\* analyzeEdit, given whether there is a parser, what it finds at the position
\* and whether a step of the body throws (the catch returns null)
analyzeEdit(g, h, file, change, hasParser, found, thrown) ==
    IF ~hasParser THEN None
    ELSE IF thrown \/ found = None THEN None
    ELSE LET symbol == found[1]
             changeType == detectChangeType(change)
             es == getEdgesForSymbol(g, symbol)
             affectedFiles ==
                 [i \in 1..Len(es) |->
                     AffectedFile(es[i].from.file, getReason(changeType, symbol),
                                  calculateSeverity(changeType, symbol))]
             oldSymbol == getLastSymbol(h, symbol)
             locations == [i \in 1..Len(es) |-> Location(affectedFiles[i].file, 0)]
             breakingChange == detectBreakingChanges(oldSymbol, symbol, locations)
         IN  Some(EditImpact(changeType, file, symbol, affectedFiles, breakingChange))

\* a slip in analyzeDelete: the test for a missing parser is left out
analyzeDeleteUnchecked(g, file, hasParser, found, thrown) ==
    IF thrown \/ found = None THEN None
    ELSE LET symbol == found[1]
             es == getEdgesForSymbol(g, symbol)
             affectedFiles ==
                 [i \in 1..Len(es) |->
                     AffectedFile(es[i].from.file,
                         "Uses deleted " \o symbol.kind \o " \"" \o symbol.name \o "\"",
                         "critical")]
         IN  Some(EditImpact("delete", file, symbol, affectedFiles, <<>>))

\* analyzeDelete
analyzeDelete(g, file, hasParser, found, thrown) ==
    IF ~hasParser THEN None
    ELSE IF thrown \/ found = None THEN None
    ELSE LET symbol == found[1]
             es == getEdgesForSymbol(g, symbol)
             affectedFiles ==
                 [i \in 1..Len(es) |->
                     AffectedFile(es[i].from.file,
                         "Uses deleted " \o symbol.kind \o " \"" \o symbol.name \o "\"",
                         "critical")]
         IN  Some(EditImpact("delete", file, symbol, affectedFiles, <<>>))

NoImpactCall ==
    [op |-> "none", file |-> "", change |-> Change(FALSE, FALSE),
     hasParser |-> FALSE, found |-> None, thrown |-> FALSE]

ImpactIdle == impactCall = NoImpactCall /\ impact = None

\* what parser.getSymbolAtPosition finds at the position of the change
FoundInputs == {None, Some(FullF2), Some(FullClassF)}

AnalyzeEdit(file, change, hasParser, found, thrown) ==
    /\ impactCall = NoImpactCall
    /\ impactCall' = [op |-> "analyzeEdit", file |-> file, change |-> change,
                      hasParser |-> hasParser, found |-> found, thrown |-> thrown]
    /\ impact' = analyzeEdit(G, symbolHistory, file, change, hasParser, found, thrown)

AnalyzeDelete(file, hasParser, found, thrown) ==
    /\ impactCall = NoImpactCall
    /\ impactCall' = [op |-> "analyzeDelete", file |-> file, change |-> Change(TRUE, FALSE),
                      hasParser |-> hasParser, found |-> found, thrown |-> thrown]
    /\ impact' = analyzeDelete(G, file, hasParser, found, thrown)

\* the graphs of the impact analysis: f of a.ts with dependents d1 and d2 in
\* b.ts, d3 in c.ts and d4 in d.ts, its own dependency g, and an edge apart
Dep(file, name) == Sym(file, name, "function", "")

ImpactEdgeInputs ==
    << GraphEdge(Dep("b.ts", "d1"), SymF2, "calls"),
       GraphEdge(Dep("b.ts", "d2"), SymF2, "calls"),
       GraphEdge(Dep("c.ts", "d3"), SymF2, "calls"),
       GraphEdge(Dep("d.ts", "d4"), SymF2, "calls"),
       GraphEdge(Dep("b.ts", "d1"), SymF2, "imports"),
       GraphEdge(Dep("c.ts", "d3"), SymF2, "imports"),
       GraphEdge(Dep("d.ts", "d4"), SymF2, "imports"),
       GraphEdge(SymF2, SymG, "calls"),
       GraphEdge(Dep("b.ts", "d1"), Dep("b.ts", "d2"), "calls") >>

\* the versions of f recorded before the analysis
HistoryInputs ==
    {<<>>, <<FullF1>>, <<FullF1, FullF2>>, <<FullF2, FullF2>>, <<FullF3, FullF1, FullF2>>}

RecordAll(seq) ==
    LET F[i \in 0..Len(seq)] ==
            IF i = 0 THEN [symbolHistory |-> <<>>, changes |-> <<>>]
            ELSE recordSymbol(F[i-1], seq[i], 0)
    IN  F[Len(seq)]

-----------------------------------------------------------------------------
(* ActiveFileTracker (src/src/analysis/active-file-tracker.ts) and the     *)
(* edit listener of the extension (src/src/extension.ts, lines 184-210),   *)
(* which both receive every content-change event.  trackFile suspends on   *)
(* the parser; analyzeChanges and the extension's listener suspend at each *)
(* await of analyzeEdit or analyzeDelete and resume as a microtask.  Those *)
(* two functions await nothing, so their promise is settled when they      *)
(* return, and the microtask runs before the event loop delivers another   *)
(* event or timer.  What an analysis returns is left open here: null, a    *)
(* report without affected files, or a report with some.                   *)

VARIABLES
    autoAnalyze,   \* the setting ripple.autoAnalyze
    activeFile,    \* ActiveFileTracker.activeFile: None, or Some(state)
    changeBuffer,  \* ActiveFileTracker.changeBuffer
    debounceTimer, \* ActiveFileTracker.debounceTimer: None, or Some(timer)
    tracking,      \* the documents of the trackFile calls that await the parser, in
                   \* the order the calls began
    switched,      \* history: the document of the last trackFile call begun, and
                   \* whether a call has ended without a parse result
    awaiting,      \* the callers suspended at an await of analyzeEdit or analyzeDelete
    clock,         \* the time in ms
    analyses,      \* history: the calls of analyzeEdit and analyzeDelete, in order
    lastBuffered,  \* history: the time of the last change put into the buffer
    passes,        \* history: the number of analysis passes started
    events         \* history: the number of content-change events and editor switches

trackerVars == <<autoAnalyze, activeFile, changeBuffer, debounceTimer, tracking, switched,
                 awaiting, clock, analyses, lastBuffered, passes, events>>

Documents == {"a.ts", "b.ts"}

\* a change of the buffer, with the document and the time it occurred in
Buffered(change, file, at) == [change |-> change, file |-> file, at |-> at]

\* event.contentChanges
ContentChangesInputs ==
    {<<>>, <<Change(TRUE, TRUE)>>, <<Change(TRUE, FALSE)>>,
     <<Change(FALSE, TRUE), Change(TRUE, FALSE)>>}

Outcomes == {"null", "unaffected", "affected"}

ActiveFileState(file, currentEdit, lastChange) ==
    [file |-> file, currentEdit |-> currentEdit, lastChange |-> lastChange]

Timer(deadline, pending) == [deadline |-> deadline, pending |-> pending]

Analysis(by, op, file, buffered, pass) ==
    [by |-> by, op |-> op, file |-> file, change |-> buffered, at |-> clock,
     lastBuffered |-> lastBuffered, pass |-> pass]

\* the constructor, then startTracking with a.ts in the active editor
TrackerInit ==
    /\ autoAnalyze \in BOOLEAN
    /\ activeFile = None
    /\ changeBuffer = <<>>
    /\ debounceTimer = None
    /\ tracking = <<"a.ts">>
    /\ switched = [last |-> "a.ts", failed |-> FALSE]
    /\ awaiting = <<>>
    /\ clock = 0
    /\ analyses = <<>>
    /\ lastBuffered = 0
    /\ passes = 0
    /\ events = 0

TrackerIdle ==
    /\ autoAnalyze = TRUE
    /\ activeFile = None
    /\ changeBuffer = <<>>
    /\ debounceTimer = None
    /\ tracking = <<>>
    /\ switched = [last |-> "", failed |-> FALSE]
    /\ awaiting = <<>>
    /\ clock = 0
    /\ analyses = <<>>
    /\ lastBuffered = 0
    /\ passes = 0
    /\ events = 0

\* a caller suspended at an await: the extension's listener, or a pass of
\* analyzeChanges with the change under analysis, the file it passed and the
\* changes of its copy of the buffer that are still to come
Suspended(by, pass, file, current, rest) ==
    [by |-> by, pass |-> pass, file |-> file, current |-> current, rest |-> rest]

\* whether analyzeEdit and analyzeDelete suspend before they return: neither
\* contains an await
AnalysisAwaitsIOYes == TRUE

AnalysisAwaitsIO == FALSE

\* the event loop delivers the next event or timer once no microtask is queued
EventLoopTurn == AnalysisAwaitsIO \/ awaiting = <<>>

\* onDidChangeActiveTextEditor: trackFile starts and awaits the parser
SwitchEditor(document) ==
    /\ EventLoopTurn
    /\ tracking' = Append(tracking, document)
    /\ switched' = [switched EXCEPT !.last = document]
    /\ events' = events + 1
    /\ UNCHANGED <<autoAnalyze, activeFile, changeBuffer, debounceTimer, awaiting,
                   clock, analyses, lastBuffered, passes>>

\* trackFile resumes: with a parse result, or with no parser or a parse error
TrackFileFinish(i, parsed) ==
    /\ EventLoopTurn
    /\ i \in 1..Len(tracking)
    /\ tracking' = SubSeq(tracking, 1, i - 1) \o SubSeq(tracking, i + 1, Len(tracking))
    /\ switched' = [switched EXCEPT !.failed = @ \/ ~parsed]
    /\ activeFile' = IF parsed THEN Some(ActiveFileState(tracking[i], None, clock))
                     ELSE activeFile
    /\ UNCHANGED <<autoAnalyze, changeBuffer, debounceTimer, awaiting, clock,
                   analyses, lastBuffered, passes, events>>

\* whether the tracker's listener passes the event on to handleChange, and
\* handleChange buffers it
Buffers(document, contentChanges) ==
    /\ activeFile # None
    /\ activeFile[1].file = document
    /\ Len(contentChanges) > 0

\* whether the extension's listener calls analyzeEdit
Listens(contentChanges) == autoAnalyze /\ Len(contentChanges) > 0

\* onDidChangeTextDocument: the tracker's listener (handleChange), then the
\* extension's listener, which analyzes the first change at once and
\* suspends at its await
ContentChange(document, contentChanges) ==
    /\ EventLoopTurn
    /\ events' = events + 1
    /\ IF Buffers(document, contentChanges)
       THEN /\ changeBuffer' = changeBuffer \o
                    [i \in 1..Len(contentChanges) |->
                        Buffered(contentChanges[i], document, clock)]
            /\ activeFile' = Some([activeFile[1] EXCEPT !.lastChange = clock])
            /\ debounceTimer' = Some(Timer(clock + DEBOUNCE_MS, TRUE))
            /\ lastBuffered' = clock
       ELSE UNCHANGED <<changeBuffer, activeFile, debounceTimer, lastBuffered>>
    /\ IF Listens(contentChanges)
       THEN LET first == Buffered(contentChanges[1], document, clock)
            IN  /\ analyses' = Append(analyses,
                      [Analysis("listener", "analyzeEdit", document, first, 0)
                       EXCEPT !.lastBuffered = lastBuffered'])
                /\ awaiting' = Append(awaiting,
                      Suspended("listener", 0, document, first, <<>>))
       ELSE UNCHANGED <<analyses, awaiting>>
    /\ UNCHANGED <<autoAnalyze, tracking, switched, clock, passes>>

IsDeletion(change) == ~change.textAfter /\ change.textBefore

IsEdit(change) == ~IsDeletion(change) /\ (change.textBefore \/ change.textAfter)

\* whether analyzeChanges stores the report of the change as currentEdit
Stores(change, outcome) ==
    \/ IsDeletion(change) /\ outcome # "null"
    \/ IsEdit(change) /\ outcome = "affected"

\* the index of the first of the changes that analyzeChanges analyses, or 0
NextAnalysed(changes_) ==
    LET is == {i \in 1..Len(changes_) :
                  IsDeletion(changes_[i].change) \/ IsEdit(changes_[i].change)}
    IN  IF is = {} THEN 0 ELSE CHOOSE i \in is : \A j \in is : i <= j

\* the loop of analyzeChanges over the changes still to come, up to its next
\* await or to its end; others are the other suspended callers, file is
\* this.activeFile.file
Loop(others, pass, file, changes_) ==
    LET k == NextAnalysed(changes_)
    IN  IF k = 0
        THEN /\ awaiting' = others
             /\ UNCHANGED analyses
        ELSE /\ analyses' = Append(analyses,
                    Analysis("pass",
                        IF IsDeletion(changes_[k].change)
                        THEN "analyzeDelete" ELSE "analyzeEdit",
                        file, changes_[k], pass))
             /\ awaiting' = Append(others,
                    Suspended("pass", pass, file, changes_[k],
                              SubSeq(changes_, k + 1, Len(changes_))))

\* the debounce timer fires: analyzeChanges, up to its first await
TimerFires ==
    /\ EventLoopTurn
    /\ debounceTimer # None
    /\ debounceTimer[1].pending
    /\ clock >= debounceTimer[1].deadline
    /\ debounceTimer' = Some(Timer(debounceTimer[1].deadline, FALSE))
    /\ IF activeFile = None \/ Len(changeBuffer) = 0
       THEN UNCHANGED <<changeBuffer, analyses, passes, awaiting>>
       ELSE /\ changeBuffer' = <<>>
            /\ passes' = passes + 1
            /\ Loop(awaiting, passes + 1, activeFile[1].file, changeBuffer)
    /\ UNCHANGED <<autoAnalyze, activeFile, tracking, switched, clock, lastBuffered,
                   events>>

\* a suspended caller resumes with what its analysis returned: the listener
\* ends; analyzeChanges stores the report and goes on to its next await
Resume(i, outcome) ==
    /\ i \in 1..Len(awaiting)
    /\ LET caller == awaiting[i]
           others == SubSeq(awaiting, 1, i - 1) \o
                     SubSeq(awaiting, i + 1, Len(awaiting))
           stored == IF Stores(caller.current.change, outcome)
                     THEN Some([activeFile[1] EXCEPT !.currentEdit =
                                   Some([file |-> caller.file,
                                         change |-> caller.current])])
                     ELSE activeFile
       IN  IF caller.by = "listener"
           THEN /\ awaiting' = others
                /\ UNCHANGED <<activeFile, analyses>>
           ELSE /\ activeFile' = stored
                /\ Loop(others, caller.pass, stored[1].file, caller.rest)
    /\ UNCHANGED <<autoAnalyze, changeBuffer, debounceTimer, tracking, switched, clock,
                   lastBuffered, passes, events>>

\* time passes, once a timer that is due has fired
TimePasses ==
    /\ EventLoopTurn
    /\ clock < MaxClock
    /\ ~(debounceTimer # None /\ debounceTimer[1].pending
          /\ clock >= debounceTimer[1].deadline)
    /\ clock' = clock + StepMs
    /\ UNCHANGED <<autoAnalyze, activeFile, changeBuffer, debounceTimer, tracking,
                   switched,
                   awaiting, analyses, lastBuffered, passes, events>>

TrackerNext ==
    \/ \E d \in Documents : events < MaxEvents /\ SwitchEditor(d)
    \/ \E i \in 1..Len(tracking), parsed \in BOOLEAN : TrackFileFinish(i, parsed)
    \/ \E d \in Documents, cs \in ContentChangesInputs :
          events < MaxEvents /\ ContentChange(d, cs)
    \/ TimerFires
    \/ \E i \in 1..Len(awaiting), outcome \in Outcomes : Resume(i, outcome)
    \/ TimePasses

-----------------------------------------------------------------------------
(* ParserRegistry (src/src/parsers/parser-registry.ts).  getParser is      *)
(* async: it runs up to `await loader()` when it is called, and resumes    *)
(* when the loader's promise settles.  A loader is known by its language;  *)
(* the parser it resolves to reports that language and the extensions the  *)
(* loader was registered with.                                             *)

VARIABLES
    parsers,      \* ParserRegistry.parsers: language -> parser
    extensionMap, \* ParserRegistry.extensionMap: extension -> language
    lazyLoaders,  \* ParserRegistry.lazyLoaders: the languages with a loader
    loading,      \* the getParser calls that await their loader, oldest first
    loaderCalls,  \* history: language -> the number of times its loader was invoked
    requested,    \* history: the languages getParser was asked for
    parserDone    \* the registry call that returned last, and its result

registryVars == <<parsers, extensionMap, lazyLoaders, loading, loaderCalls,
                  requested, parserDone>>

Languages == {"typescript", "python"}

\* the extensions each lazy parser is registered with, as written by the caller
LazyExtensions == [l \in Languages |-> IF l = "typescript" THEN {".TS"} ELSE {".py"}]

FilePaths == {"a.ts", "B.TS", "b.py", "b.ts", "c.txt"}

\* path.extname
extname(filePath) ==
    CASE filePath = "a.ts" -> ".ts"
      [] filePath = "B.TS" -> ".TS"
      [] filePath = "b.py" -> ".py"
      [] filePath = "b.ts" -> ".ts"
      [] OTHER -> ".txt"

\* String.toLowerCase, on the extensions
toLowerCase(ext) == IF ext = ".TS" THEN ".ts" ELSE ext

\* a parser: the language it reports, and the loader invocation that made it
Parser(language, instance) == [language |-> language, instance |-> instance]

\* a getParser call that awaits its loader; by names the caller, file its argument
Loading(language, instance, by, file) ==
    [language |-> language, instance |-> instance, by |-> by, file |-> file]

NoParserCall == [op |-> "none", language |-> "", parser |-> None]

ParserReturn(op, language, parser) == [op |-> op, language |-> language, parser |-> parser]

RegistryNew ==
    /\ parsers = <<>>
    /\ extensionMap = <<>>
    /\ lazyLoaders = {}
    /\ loading = <<>>
    /\ loaderCalls = [l \in Languages |-> 0]
    /\ requested = {}
    /\ parserDone = NoParserCall

\* ParserRegistry.register, on the two maps
register(ps, em, parser) ==
    [parsers |-> MapSet(ps, parser.language, parser),
     extensionMap |->
        [e \in DOMAIN em \cup {toLowerCase(x) : x \in LazyExtensions[parser.language]} |->
            IF e \in {toLowerCase(x) : x \in LazyExtensions[parser.language]}
            THEN parser.language ELSE em[e]]]

\* ParserRegistry.registerLazy
RegisterLazy(language) ==
    /\ lazyLoaders' = lazyLoaders \cup {language}
    /\ extensionMap' =
          [e \in DOMAIN extensionMap \cup {toLowerCase(x) : x \in LazyExtensions[language]} |->
              IF e \in {toLowerCase(x) : x \in LazyExtensions[language]}
              THEN language ELSE extensionMap[e]]
    /\ UNCHANGED <<parsers, loading, loaderCalls, requested, parserDone>>

\* getParser up to its return or its await: the parser when there is one, the
\* loader invoked when there is a loader, null otherwise
GetParserCall(op, language, by, file) ==
    /\ requested' = requested \cup {language}
    /\ IF language \in DOMAIN parsers
       THEN /\ parserDone' = ParserReturn(op, language, Some(parsers[language]))
            /\ UNCHANGED <<loading, loaderCalls>>
       ELSE IF language \in lazyLoaders
       THEN /\ loaderCalls' = [loaderCalls EXCEPT ![language] = @ + 1]
            /\ loading' = Append(loading,
                  Loading(language, loaderCalls[language] + 1, by, file))
            /\ UNCHANGED parserDone
       ELSE /\ parserDone' = ParserReturn(op, language, None)
            /\ UNCHANGED <<loading, loaderCalls>>
    /\ UNCHANGED <<parsers, extensionMap, lazyLoaders>>

\* ParserRegistry.getParser
GetParser(language) == GetParserCall("getParser", language, "getParser", "")

\* ParserRegistry.getParserForFile
GetParserForFile(filePath) ==
    LET ext == toLowerCase(extname(filePath))
    IN  IF ext \notin DOMAIN extensionMap
        THEN /\ parserDone' = ParserReturn("getParserForFile", "", None)
             /\ UNCHANGED <<parsers, extensionMap, lazyLoaders, loading,
                            loaderCalls, requested>>
        ELSE GetParserCall("getParserForFile", extensionMap[ext],
                           "getParserForFile", filePath)

\* the i-th pending call without it
Without(seq, i) == SubSeq(seq, 1, i - 1) \o SubSeq(seq, i + 1, Len(seq))

\* the loader's promise settles and getParser resumes: the parser is
\* registered and returned, or the error is logged and null returned
LoaderSettles(i, resolved) ==
    /\ i \in 1..Len(loading)
    /\ LET call_ == loading[i]
           parser == Parser(call_.language, call_.instance)
           reg == register(parsers, extensionMap, parser)
       IN  /\ loading' = Without(loading, i)
           /\ parsers' = IF resolved THEN reg.parsers ELSE parsers
           /\ extensionMap' = IF resolved THEN reg.extensionMap ELSE extensionMap
           /\ parserDone' = ParserReturn(call_.by, call_.language,
                                IF resolved THEN Some(parser) ELSE None)
    /\ UNCHANGED <<lazyLoaders, loaderCalls, requested>>

\* ParserRegistry.register, called with a parser made by the caller
Register(language) ==
    /\ LET reg == register(parsers, extensionMap, Parser(language, 0))
       IN  parsers' = reg.parsers /\ extensionMap' = reg.extensionMap
    /\ UNCHANGED <<lazyLoaders, loading, loaderCalls, requested, parserDone>>

\* ParserRegistry.unregister
Unregister(language) ==
    /\ parsers' = MapDelete(parsers, language)
    /\ lazyLoaders' = lazyLoaders \ {language}
    /\ UNCHANGED <<extensionMap, loading, loaderCalls, requested, parserDone>>

\* ParserRegistry.clear
RegistryClear ==
    /\ parsers' = <<>>
    /\ extensionMap' = <<>>
    /\ lazyLoaders' = {}
    /\ UNCHANGED <<loading, loaderCalls, requested, parserDone>>

\* ParserRegistry.canParse
canParse(em, filePath) == toLowerCase(extname(filePath)) \in DOMAIN em

RegistryIdle == RegistryNew

\* the bound of the model: a request is made while fewer than MaxPending
\* calls await a loader and no loader was invoked MaxLoads times
RegistryBounded ==
    /\ Len(loading) < MaxPending
    /\ \A l \in Languages : loaderCalls[l] < MaxLoads

RegistryNext ==
    \/ \E l \in Languages : l \notin lazyLoaders /\ RegisterLazy(l)
    \/ \E l \in Languages : RegistryBounded /\ GetParser(l)
    \/ \E f \in FilePaths : RegistryBounded /\ GetParserForFile(f)
    \/ \E i \in 1..Len(loading), resolved \in BOOLEAN : LoaderSettles(i, resolved)
    \/ \E l \in Languages : Register(l)
    \/ \E l \in Languages : Unregister(l)
    \/ RegistryClear

-----------------------------------------------------------------------------
(* DependencyGraphManager.updateGraph (src/src/analysis/change-detector.ts, *)
(* lines 388-448), over the registry, the cache and the graph above.  It   *)
(* awaits getParserForFile and runs on when that returns.  The value of    *)
(* cacheManager.get(...) is the promise of an async method, which the code *)
(* does not await.                                                         *)

VARIABLES
    parseThrows, \* the files on which parser.parse throws
    parseCalls,  \* history: the files parser.parse was invoked for, in order
    setCalls,    \* history: the files cacheManager.set was called for, in order
    upDone       \* the updateGraph call that completed last, how it ended, the graph before

managerVars == <<parseThrows, parseCalls, setCalls, upDone>>

\* the files updateGraph is called for
UpdateFiles == {"a.ts", "b.ts", "c.txt"}

ParsedDependency(source, target, type) == [source |-> source, target |-> target, type |-> type]

ParseResult(filePath, symbols, dependencies) ==
    [filePath |-> filePath, symbols |-> symbols, dependencies |-> dependencies]

\* what parser.parse resolves to for a file: two functions, the second calling
\* the first, and a dependency on a symbol the file does not hold
parse(filePath) ==
    LET f == Sym(filePath, "f", "function", "f(a, b)")
        g == Sym(filePath, "g", "function", "g()")
    IN  ParseResult(filePath, <<f, g>>,
            <<ParsedDependency(getSymbolKey(g), getSymbolKey(f), "calls"),
              ParsedDependency(getSymbolKey(g), "lib.ts:h:function", "imports")>>)

\* the values of `cached`: a promise, null, or a parse result
JsPromise == [kind |-> "promise", parsed |-> ParseResult("", <<>>, <<>>)]
JsNull == [kind |-> "null", parsed |-> ParseResult("", <<>>, <<>>)]
JsResult(parsed) == [kind |-> "result", parsed |-> parsed]

\* if (cached)
Truthy(value) == value.kind # "null"

\* updateGraphFromParseResult: result.symbols.forEach throws a TypeError on a
\* value without a symbols array, before the graph is touched
updateGraphFromParseResult(g, value) ==
    IF value.kind # "result"
    THEN [threw |-> TRUE, graph |-> g]
    ELSE LET symbols == value.parsed.symbols
             deps == value.parsed.dependencies
             keys == {getSymbolKey(symbols[i]) : i \in 1..Len(symbols)}
             \* symbolMap.get(key): the last symbol set under the key
             Lookup(key) ==
                 symbols[CHOOSE i \in 1..Len(symbols) :
                            /\ getSymbolKey(symbols[i]) = key
                            /\ \A j \in (i+1)..Len(symbols) : getSymbolKey(symbols[j]) # key]
             WithNodes[i \in 0..Len(symbols)] ==
                 IF i = 0 THEN g ELSE addNode(WithNodes[i-1], symbols[i])
             WithEdges[i \in 0..Len(deps)] ==
                 IF i = 0 THEN WithNodes[Len(symbols)]
                 ELSE IF deps[i].source \in keys /\ deps[i].target \in keys
                 THEN addEdge(WithEdges[i-1],
                              GraphEdge(Lookup(deps[i].source), Lookup(deps[i].target),
                                        deps[i].type))
                 ELSE WithEdges[i-1]
         IN  [threw |-> FALSE, graph |-> WithEdges[Len(deps)]]

\* how an updateGraph call ended: the graph it left, whether it reached
\* cacheManager.get, parser.parse and cacheManager.set
Ended(graph, outcome, got, parsed, stored) ==
    [graph |-> graph, outcome |-> outcome, got |-> got, parsed |-> parsed,
     stored |-> stored]

\* a slip in updateGraph: no try around the body, an exception goes to the caller
updateGraphUncaught(g, filePath, parser, throws) ==
    IF parser = None
    THEN Ended(g, "returned", FALSE, FALSE, FALSE)
    ELSE LET fromCache == updateGraphFromParseResult(g, JsPromise)
         IN  Ended(fromCache.graph, IF fromCache.threw THEN "threw" ELSE "returned",
                   TRUE, FALSE, FALSE)

\* updateGraph from the return of getParserForFile on.  cached is a promise,
\* so the branch that parses is not taken; it is given here as the code has it,
\* with the awaits of parse and set folded in.
updateGraph(g, filePath, parser, throws) ==
    IF parser = None
    THEN Ended(g, "returned", FALSE, FALSE, FALSE)
    ELSE LET cached == JsPromise
             fromCache == updateGraphFromParseResult(g, cached)
             fromParse == updateGraphFromParseResult(g, JsResult(parse(filePath)))
         IN  IF Truthy(cached)
             THEN Ended(fromCache.graph, "returned", TRUE, FALSE, FALSE)
             ELSE IF filePath \in throws
             THEN Ended(g, "returned", TRUE, TRUE, FALSE)
             ELSE Ended(fromParse.graph, "returned", TRUE, TRUE, TRUE)

NoUpdate ==
    [op |-> "none", file |-> "", hasParser |-> FALSE, outcome |-> "returned",
     cacheValid |-> FALSE, before |-> EmptyGraph]

ManagerIdle ==
    /\ parseThrows = {}
    /\ parseCalls = <<>>
    /\ setCalls = <<>>
    /\ upDone = NoUpdate

ManagerInit ==
    /\ parseThrows \in SUBSET {"a.ts"}
    /\ parseCalls = <<>>
    /\ setCalls = <<>>
    /\ upDone = NoUpdate

\* whether the cache holds an entry for the file that a get would return
CacheValid(filePath) ==
    /\ LRUGet(cache, filePath, now).value # Undefined
    /\ MapGet(fileFingerprints, filePath) = fingerprintOf(files[filePath])

\* updateGraph runs on with the parser it got, to its end
UpdateGraphResume(filePath, parser) ==
    LET ended == updateGraph(G, filePath, parser, parseThrows)
    IN  /\ nodes' = ended.graph.nodes
        /\ edges' = ended.graph.edges
        /\ nodeEdges' = ended.graph.nodeEdges
        /\ IF ended.got
           THEN \E c \in CallIds : CacheGetStart(c, filePath)
           ELSE UNCHANGED cacheVars
        /\ parseCalls' = IF ended.parsed THEN Append(parseCalls, filePath) ELSE parseCalls
        /\ setCalls' = IF ended.stored THEN Append(setCalls, filePath) ELSE setCalls
        /\ upDone' = [op |-> "updateGraph", file |-> filePath,
                      hasParser |-> parser # None, outcome |-> ended.outcome,
                      cacheValid |-> parser # None /\ CacheValid(filePath),
                      before |-> G]
        /\ UNCHANGED parseThrows

\* updateGraph is called: getParserForFile returns at once, or awaits a loader
UpdateGraph(filePath) ==
    LET ext == toLowerCase(extname(filePath))
        language == extensionMap[ext]
    IN  IF ext \notin DOMAIN extensionMap
        THEN /\ UpdateGraphResume(filePath, None)
             /\ parserDone' = ParserReturn("updateGraph", "", None)
             /\ UNCHANGED <<parsers, extensionMap, lazyLoaders, loading,
                            loaderCalls, requested>>
        ELSE /\ GetParserCall("updateGraph", language, "updateGraph", filePath)
             /\ IF language \in DOMAIN parsers
                THEN UpdateGraphResume(filePath, Some(parsers[language]))
                ELSE IF language \in lazyLoaders
                THEN UNCHANGED <<graphVars, cacheVars, managerVars>>
                ELSE UpdateGraphResume(filePath, None)

\* a loader settles; an updateGraph call that awaited it runs on
LoaderSettlesForManager(i, resolved) ==
    /\ LoaderSettles(i, resolved)
    /\ IF loading[i].by = "updateGraph"
       THEN UpdateGraphResume(loading[i].file,
                IF resolved
                THEN Some(Parser(loading[i].language, loading[i].instance))
                ELSE None)
       ELSE UNCHANGED <<graphVars, cacheVars, managerVars>>

\* the bound of the model: updateGraph is called when no cache call is pending
ManagerNext ==
    \/ \E l \in Languages :
          /\ l \notin lazyLoaders /\ RegisterLazy(l)
          /\ UNCHANGED <<graphVars, cacheVars, managerVars>>
    \/ \E f \in UpdateFiles : RegistryBounded /\ AllIdle /\ UpdateGraph(f)
    \/ \E i \in 1..Len(loading), resolved \in BOOLEAN :
          AllIdle /\ LoaderSettlesForManager(i, resolved)
    \/ \E c \in CallIds :
          CacheStat(c) /\ UNCHANGED <<graphVars, registryVars, managerVars>>
    \/ \E c \in CallIds :
          CacheGetFinish(c) /\ UNCHANGED <<graphVars, registryVars, managerVars>>

-----------------------------------------------------------------------------
\* the components beyond the graph, its queries and the fingerprint cache
restVars == <<lruVars, bcVars, cdVars, impactVars, trackerVars, registryVars, managerVars>>

LruIdle == LruNew(LRUOptions(1, NoTtl))

\* they stay as constructed while another component is under study
RestInit == LruIdle /\ BcIdle /\ CdNew /\ ImpactIdle /\ TrackerIdle /\ RegistryIdle /\ ManagerIdle

vars == <<nodes, edges, nodeEdges, call, pc, frames, visited, result, ret,
          cache, fileFingerprints, files, now, inflight, done, lastSet, restVars>>

Init == GraphInit /\ QueryInit /\ CacheInit /\ RestInit

Next ==
    \/ \E s \in Symbols : AddNode(s) /\ UNCHANGED <<cacheVars, restVars>>
    \/ \E e \in EdgeInputs : Bounded(e) /\ AddEdge(e) /\ UNCHANGED <<cacheVars, restVars>>
    \/ \E s \in Symbols : RemoveNode(s) /\ UNCHANGED <<cacheVars, restVars>>
    \/ Clear /\ UNCHANGED <<cacheVars, restVars>>

Spec == Init /\ [][Next]_vars

NextCache == CacheNext /\ UNCHANGED <<graphVars, queryVars, restVars>>

SpecCache == Init /\ [][NextCache]_vars

InitLRU ==
    /\ GraphInit /\ QueryInit /\ CacheInit
    /\ \E o \in LruOptionsInputs : LruNew(o)
    /\ BcIdle /\ CdNew /\ ImpactIdle /\ TrackerIdle /\ RegistryIdle /\ ManagerIdle

NextLRU == LruNext /\ UNCHANGED <<graphVars, queryVars, bcVars, cdVars, impactVars, trackerVars, registryVars, managerVars>>

SpecLRU == InitLRU /\ [][NextLRU]_vars

InitBreaking ==
    /\ GraphInit /\ QueryInit /\ CacheInit
    /\ BcInit
    /\ LruIdle /\ CdNew /\ ImpactIdle /\ TrackerIdle /\ RegistryIdle /\ ManagerIdle

NextBreaking ==
    DetectBreakingChanges /\ UNCHANGED <<graphVars, queryVars, cacheVars, lruVars, cdVars, impactVars, trackerVars, registryVars, managerVars>>

SpecBreaking == InitBreaking /\ [][NextBreaking]_vars

NextHistory == CdNext /\ UNCHANGED <<graphVars, queryVars, lruVars, bcVars, impactVars, trackerVars, registryVars, managerVars>>

SpecHistory == Init /\ [][NextHistory]_vars

InitImpact ==
    /\ \E S \in SUBSET (1..Len(ImpactEdgeInputs)) :
          LET g == BuildGraph(SelectSeq(ImpactEdgeInputs,
                        LAMBDA e : \E i \in S : ImpactEdgeInputs[i] = e))
          IN  nodes = g.nodes /\ edges = g.edges /\ nodeEdges = g.nodeEdges
    /\ \E vs \in HistoryInputs :
          LET cd == RecordAll(vs)
          IN  /\ symbolHistory = cd.symbolHistory
              /\ changes = cd.changes
              /\ recorded = vs
              /\ cdDone = NoCdCall
    /\ QueryInit /\ CacheInit
    /\ ImpactIdle
    /\ LruIdle /\ BcIdle /\ TrackerIdle /\ RegistryIdle /\ ManagerIdle

NextImpact ==
    \/ \E c \in ChangeInputs, p \in BOOLEAN, s \in FoundInputs, t \in BOOLEAN :
          AnalyzeEdit("a.ts", c, p, s, t) /\ UNCHANGED <<graphVars, cdVars, queryVars, cacheVars, lruVars, bcVars, trackerVars, registryVars, managerVars>>
    \/ \E p \in BOOLEAN, s \in FoundInputs, t \in BOOLEAN :
          AnalyzeDelete("a.ts", p, s, t) /\ UNCHANGED <<graphVars, cdVars, queryVars, cacheVars, lruVars, bcVars, trackerVars, registryVars, managerVars>>

SpecImpact == InitImpact /\ [][NextImpact]_vars

InitTracker ==
    /\ GraphInit /\ QueryInit /\ CacheInit
    /\ TrackerInit
    /\ LruIdle /\ BcIdle /\ CdNew /\ ImpactIdle /\ RegistryIdle /\ ManagerIdle

NextTracker == TrackerNext /\ UNCHANGED <<graphVars, queryVars, lruVars, bcVars, cdVars, impactVars, registryVars, managerVars, cacheVars>>

SpecTracker == InitTracker /\ [][NextTracker]_vars


InitRegistry ==
    /\ GraphInit /\ QueryInit /\ CacheInit
    /\ RegistryNew
    /\ LruIdle /\ BcIdle /\ CdNew /\ ImpactIdle /\ TrackerIdle /\ ManagerIdle

NextRegistry == RegistryNext /\ UNCHANGED <<graphVars, queryVars, cacheVars, lruVars, bcVars, cdVars, impactVars, trackerVars, managerVars>>

SpecRegistry == InitRegistry /\ [][NextRegistry]_vars

InitManager ==
    /\ \E es \in {<<>>, <<GraphEdge(SymG, SymF2, "calls")>>} :
          LET g == BuildGraph(es)
          IN  nodes = g.nodes /\ edges = g.edges /\ nodeEdges = g.nodeEdges
    /\ QueryInit /\ CacheInit
    /\ RegistryNew
    /\ ManagerInit
    /\ LruIdle /\ BcIdle /\ CdNew /\ ImpactIdle /\ TrackerIdle

NextManager == ManagerNext /\ UNCHANGED <<queryVars, lruVars, bcVars, cdVars, impactVars, trackerVars>>

SpecManager == InitManager /\ [][NextManager]_vars

\* the calls of the cache overlapping: get and set are started while others
\* are suspended at their await, and the synchronous calls run in between
ConcurrentCallIds == 1..MaxConcurrent

CacheInitConcurrent ==
    /\ cache = <<>>
    /\ fileFingerprints = <<>>
    /\ files = [p \in Paths |-> Stat(1, 1)]
    /\ now = 0
    /\ inflight = [c \in ConcurrentCallIds |-> NoPending]
    /\ done = NoDone
    /\ lastSet = [p \in Paths |-> NoSet]

\* a call that starts is given the first free place
FirstFree(c) ==
    /\ inflight[c].op = "none"
    /\ \A d \in ConcurrentCallIds : d < c => inflight[d].op # "none"

\* the overlapping calls are all about the file the environment writes
CacheNextConcurrent ==
    \/ \E c \in ConcurrentCallIds, p \in WrittenPaths :
          FirstFree(c) /\ CacheGetStart(c, p)
    \/ \E c \in ConcurrentCallIds, p \in WrittenPaths, v \in Values :
          FirstFree(c) /\ CacheSetStart(c, p, v)
    \/ \E c \in ConcurrentCallIds : CacheStat(c)
    \/ \E c \in ConcurrentCallIds : CacheGetFinish(c)
    \/ \E c \in ConcurrentCallIds : CacheSetFinish(c)
    \/ \E p \in WrittenPaths : CacheInvalidate(p)
    \/ CacheClear
    \/ \E p \in WrittenPaths, f \in FileStates : FileWrite(p, f)
    \/ Tick

InitConcurrent == GraphInit /\ QueryInit /\ CacheInitConcurrent /\ RestInit

NextConcurrent == CacheNextConcurrent /\ UNCHANGED <<graphVars, queryVars, restVars>>

SpecConcurrent == InitConcurrent /\ [][NextConcurrent]_vars

-----------------------------------------------------------------------------
(* The queries on the graphs that addEdge builds.  Init draws   *)
(* the graph: the result of a sequence of addEdge calls on a new graph.    *)

SeqsUpTo(S, n) == UNION {[1..k -> S] : k \in 0..n}

\* every 'calls' edge between the three identities, and one 'imports' edge
\* beside the 'calls' edge of its pair
TraverseEdgeInputs ==
    [from : EdgeSymbols, to : EdgeSymbols, type : {"calls"}]
        \cup {GraphEdge(SymG, SymF2, "imports")}

InitTraverse ==
    /\ \E es \in SeqsUpTo(TraverseEdgeInputs, MaxChain) :
          LET g == BuildGraph(es)
          IN  nodes = g.nodes /\ edges = g.edges /\ nodeEdges = g.nodeEdges
    /\ QueryInit
    /\ CacheInit
    /\ RestInit

\* a query leaves the graph as it is and starts from fresh closure variables, so
\* one query per drawn graph covers every query
NextTraverse ==
    \/ \E op \in TransitiveOps, s \in EdgeSymbols, d \in Depths :
          call = NoCall /\ StartTransitive(op, s, d) /\ UNCHANGED <<cacheVars, restVars>>
    \/ \E s \in EdgeSymbols : call = NoCall /\ GetDependents(s) /\ UNCHANGED <<cacheVars, restVars>>
    \/ \E s \in EdgeSymbols : call = NoCall /\ GetDependencies(s) /\ UNCHANGED <<cacheVars, restVars>>
    \/ TraverseVisit /\ UNCHANGED <<cacheVars, restVars>>
    \/ TraverseReturn /\ UNCHANGED <<cacheVars, restVars>>

SpecTraverse == InitTraverse /\ [][NextTraverse]_vars

(* A longer chain with a shortcut: api is used by q1 and by p1, q1 by q2,  *)
(* q2 by p1, p1 by p2, p2 by s.  Init draws any of these edges, in any     *)
(* order of insertion.                                                     *)

Deep(name) == Sym("lib.ts", name, "function", name \o "()")
DeepApi == Deep("api")
DeepQ1 == Deep("q1")
DeepQ2 == Deep("q2")
DeepP1 == Deep("p1")
DeepP2 == Deep("p2")
DeepS == Deep("s")

DeepEdgeInputs ==
    { GraphEdge(DeepQ1, DeepApi, "calls"), GraphEdge(DeepQ2, DeepQ1, "calls"),
      GraphEdge(DeepP1, DeepQ2, "calls"), GraphEdge(DeepP1, DeepApi, "calls"),
      GraphEdge(DeepP2, DeepP1, "calls"), GraphEdge(DeepS, DeepP2, "calls") }

InitDeep ==
    /\ \E es \in SeqsUpTo(DeepEdgeInputs, Cardinality(DeepEdgeInputs)) :
          LET g == BuildGraph(es)
          IN  nodes = g.nodes /\ edges = g.edges /\ nodeEdges = g.nodeEdges
    /\ QueryInit
    /\ CacheInit
    /\ RestInit

NextDeep ==
    \/ \E op \in TransitiveOps, d \in Depths :
          call = NoCall /\ StartTransitive(op, DeepApi, d) /\ UNCHANGED <<cacheVars, restVars>>
    \/ TraverseVisit /\ UNCHANGED <<cacheVars, restVars>>
    \/ TraverseReturn /\ UNCHANGED <<cacheVars, restVars>>

SpecDeep == InitDeep /\ [][NextDeep]_vars

-----------------------------------------------------------------------------
(* Vocabulary of the claims about the transitive queries. *)

Keys(seq) == {getSymbolKey(seq[i]) : i \in 1..Len(seq)}

\* the identities with an edge to one of the identities K
DependentKeys(g, K) ==
    {getSymbolKey(g.edges[i].from) :
        i \in {j \in 1..Len(g.edges) : getSymbolKey(g.edges[j].to) \in K}}

\* the identities that a chain of 1..n dependents-edges from key reaches
RECURSIVE WithinHops(_, _, _)
WithinHops(g, key, n) ==
    IF n <= 0 THEN {}
    ELSE LET prev == WithinHops(g, key, n - 1)
         IN  prev \cup DependentKeys(g, {key} \cup prev)

\* a transitive-dependents query has returned
DependentsReturned == pc = "idle" /\ call.op = "getTransitiveDependents"

-----------------------------------------------------------------------------
(* Vocabulary of the claims about the graph. *)

\* the identity of a symbol: (file, name, kind)
Identity(symbol) == <<symbol.file, symbol.name, symbol.kind>>

Triple(e) == <<Identity(e.from), Identity(e.to), e.type>>

Touches(e, symbol) ==
    Identity(e.from) = Identity(symbol) \/ Identity(e.to) = Identity(symbol)

Identities(seq) == {Identity(seq[i]) : i \in 1..Len(seq)}

NodeIdentities(n) == {Identity(n[k]) : k \in DOMAIN n}

GNext == Graph(nodes', edges', nodeEdges')

-----------------------------------------------------------------------------
\* C1: after any sequence of addNode, addEdge, removeNode and clear the edge list
\* never holds two edges with the same (from identity, to identity, type), and
\* right after addEdge(e) it holds exactly one edge with e's triple, also when
\* the triple was there before the call.
C1_EdgesUnique ==
    /\ \A i, j \in 1..Len(edges) : Triple(edges[i]) = Triple(edges[j]) => i = j
    /\ call.op = "addEdge" =>
          Cardinality({i \in 1..Len(edges) : Triple(edges[i]) = Triple(call.edge)}) = 1

\* addEdge was called with a triple that an earlier addEdge had inserted
C1_Witness ==
    /\ call.op = "addEdge"
    /\ Len(edges) = 2
    /\ Triple(edges[1]) = Triple(call.edge)

\* C2: in every reachable state both endpoints of every edge of the edge list
\* are nodes.
C2_EndpointsAreNodes ==
    \A i \in 1..Len(edges) :
        /\ Identity(edges[i].from) \in NodeIdentities(nodes)
        /\ Identity(edges[i].to) \in NodeIdentities(nodes)

\* removeNode has removed a node and edges are left
C2_Witness ==
    /\ call.op = "removeNode"
    /\ Identity(call.symbol) \notin NodeIdentities(nodes)
    /\ \E k \in DOMAIN nodeEdges : \E i \in 1..Len(nodeEdges[k]) :
            Touches(nodeEdges[k][i], call.symbol)
    /\ Len(edges) >= 1

\* C7: for distinct symbols A and B in a graph with no edge from A to B, after
\* addEdge({from: B, to: A}) getDependents(A) contains B and getDependencies(B)
\* contains A, while getDependents(B) does not contain A and getDependencies(A)
\* does not contain B.
C7_EdgeDirection ==
    [][LET e == call'.edge IN
          ( /\ call'.op = "addEdge"
            /\ Identity(e.from) # Identity(e.to)
            /\ \A i \in 1..Len(edges) :
                  ~( /\ Identity(edges[i].from) = Identity(e.to)
                     /\ Identity(edges[i].to) = Identity(e.from) ) )
          => /\ Identity(e.from) \in Identities(getDependents(GNext, e.to))
             /\ Identity(e.to) \in Identities(getDependencies(GNext, e.from))
             /\ Identity(e.to) \notin Identities(getDependents(GNext, e.from))
             /\ Identity(e.from) \notin Identities(getDependencies(GNext, e.to))
      ]_vars

\* addEdge(B -> A) was called on a graph with other edges and none from A to B
C7_Witness ==
    /\ call.op = "addEdge"
    /\ Len(edges) = 2
    /\ Identity(call.edge.from) # Identity(call.edge.to)
    /\ Triple(edges[2]) = Triple(call.edge)
    /\ Identity(edges[1].from) = Identity(call.edge.from)
    /\ Identity(edges[1].to) # Identity(call.edge.to)

\* C8: after removeNode(S), S is not a node, no edge with S as an endpoint is
\* left, no symbol's getDependents or getDependencies holds S, and every other
\* node and every edge not touching S is as before (and nothing was added).
C8_RemoveNodeFrame ==
    [][LET s == call'.symbol IN
          call'.op = "removeNode" =>
             /\ Identity(s) \notin NodeIdentities(nodes')
             /\ \A i \in 1..Len(edges') : ~Touches(edges'[i], s)
             /\ \A t \in Symbols :
                   /\ Identity(s) \notin Identities(getDependents(GNext, t))
                   /\ Identity(s) \notin Identities(getDependencies(GNext, t))
             /\ \A k \in DOMAIN nodes :
                   Identity(nodes[k]) # Identity(s) =>
                      k \in DOMAIN nodes' /\ nodes'[k] = nodes[k]
             /\ DOMAIN nodes' \subseteq DOMAIN nodes
             /\ edges' = SelectSeq(edges, LAMBDA e : ~Touches(e, s))
      ]_vars

\* removeNode(S) took an edge into S away and left an edge of the same source
C8_Witness ==
    /\ call.op = "removeNode"
    /\ Identity(call.symbol) \notin NodeIdentities(nodes)
    /\ Len(edges) >= 1
    /\ Cardinality(NodeIdentities(nodes)) >= 2
    /\ \E k \in DOMAIN nodeEdges : \E i \in 1..Len(nodeEdges[k]) :
            getSymbolKey(nodeEdges[k][i].to) = getSymbolKey(call.symbol)

-----------------------------------------------------------------------------
\* C3: getTransitiveDependents(X, 1) never returns a symbol that only chains of
\* two or more dependents-edges from X reach.
C3_DepthOneOnly ==
    (DependentsReturned /\ call.maxDepth = 1) =>
        Keys(ret) \subseteq WithinHops(G, getSymbolKey(call.symbol), 1)

\* what is left of a running traversal: every edge can still put one element
\* on result, which costs an iteration and then a return, and every frame on
\* the stack has its return to make
Measure == 2 * (Len(edges) - Len(result)) + Len(frames)

\* C4: on every graph, cyclic ones included, for every origin and every maxDepth
\* getTransitiveDependents and getTransitiveDependencies terminate: the measure
\* of a running traversal is never negative, and every step other than the
\* outermost return lowers it.
C4_TraversalTerminates ==
    [][pc = "traverse" => (Measure >= 0 /\ (pc' = "traverse" => Measure' < Measure))]_vars

\* a traversal from an origin that lies on a cycle has returned
C4_Witness ==
    /\ pc = "idle"
    /\ call.op \in TransitiveOps
    /\ getSymbolKey(call.symbol) \in Keys(ret)
    /\ Len(ret) >= 2

\* C5: the list getTransitiveDependents returns holds each identity at most once.
C5_NoDuplicates ==
    DependentsReturned =>
        \A i, j \in 1..Len(ret) : getSymbolKey(ret[i]) = getSymbolKey(ret[j]) => i = j

\* C6: getTransitiveDependents(X, d) returns every symbol that a chain of 1..d
\* dependents-edges from X reaches, whatever the order of insertion of the edges.
C6_Complete ==
    DependentsReturned =>
        WithinHops(G, getSymbolKey(call.symbol), call.maxDepth) \subseteq Keys(ret)

-----------------------------------------------------------------------------
(* Vocabulary of the claims about the cache. *)

\* the step in which the pending get c returns
GetReturns(c) ==
    /\ inflight[c].op = "get"
    /\ inflight[c].pc = "resume"
    /\ inflight'[c].op = "none"

SetCompleted(filePath) == lastSet[filePath] # NoSet

\* C9: when set(path, v) has completed and stat finds the file as the set found
\* it (same modification time and size), a following get(path) returns v,
\* provided the memory cache still held the entry, unexpired, when get looked.
C9_SetThenGet ==
    [][\A c \in CallIds :
          LET g == inflight[c] IN
          ( /\ GetReturns(c)
            /\ SetCompleted(g.path)
            /\ g.cached # Undefined
            /\ g.file = lastSet[g.path].file )
          => done'.ret = lastSet[g.path].value
      ]_vars

\* a get of a.ts has returned the value of the last set, made on a rewritten file
C9_Witness ==
    /\ done.op = "get"
    /\ done.path = "a.ts"
    /\ lastSet["a.ts"].file = Stat(2, 1)
    /\ done.ret = "v2"
    /\ lastSet["a.ts"].value = "v2"

\* C10: when the file's modification time or size differs from what the last
\* set of the path found, get(path) returns a miss (null), and after it neither
\* a cached value nor a stored fingerprint is left for the path.
C10_ChangedFileMisses ==
    [][\A c \in CallIds :
          LET g == inflight[c] IN
          ( /\ GetReturns(c)
            /\ SetCompleted(g.path)
            /\ g.file # lastSet[g.path].file )
          => /\ done'.ret = Null
             /\ ~LRUHas(cache', g.path)
             /\ g.path \notin DOMAIN fileFingerprints'
      ]_vars

\* a get of a.ts has missed on a file whose size alone differs from the one set found
C10_Witness ==
    /\ done.op = "get"
    /\ done.path = "a.ts"
    /\ done.ret = Null
    /\ lastSet["a.ts"].file = Stat(1, 1)
    /\ files["a.ts"] = Stat(1, 2)
    /\ now = 0
    /\ ~LRUHas(cache, "a.ts")
    /\ "a.ts" \notin DOMAIN fileFingerprints

\* C11: when stat fails during get(path), get returns a miss (null), whatever
\* fingerprint an earlier set stored for the path.
C11_FailedFingerprintMisses ==
    [][\A c \in CallIds :
          (GetReturns(c) /\ ~inflight[c].file.exists) => done'.ret = Null
      ]_vars

-----------------------------------------------------------------------------
(* Vocabulary of the claims about the LRUCache. *)

KeySet(c) == {c[i].key : i \in 1..Len(c)}

\* of the keys the cache holds, the one whose last get, has or set is the oldest
LeastRecentlyTouched(c) ==
    SelectSeq(touched, LAMBDA k : k \in KeySet(c))[1]

\* C12: a cache that holds as many keys as its capacity allows evicts, on set
\* of a key it does not hold, exactly the key whose last get, has or set is the
\* oldest, and keeps every other key.
C12_EvictsLeastRecentlyTouched ==
    [][LET k == lruDone'.key IN
       ( /\ lruDone'.op = "set"
         /\ lruDone'.before = lruCache
         /\ k \notin KeySet(lruCache)
         /\ Len(lruCache) = lruOptions.maxSize )
       => KeySet(lruCache') =
             (KeySet(lruCache) \ {LeastRecentlyTouched(lruCache)}) \cup {k}
      ]_vars

\* a set on a full cache of two keys has evicted the key inserted last and
\* kept the key inserted first
C12_Witness ==
    /\ lruDone.op = "set"
    /\ lruOptions.maxSize = 2
    /\ Len(lruDone.before) = 2
    /\ lruDone.key \notin KeySet(lruDone.before)
    /\ \E i, j \in 1..2 :
          /\ lruDone.before[i].key \in KeySet(lruCache)
          /\ lruDone.before[j].key \notin KeySet(lruCache)
          /\ lruDone.before[i].timestamp < lruDone.before[j].timestamp

-----------------------------------------------------------------------------
(* Vocabulary of the claims about detectBreakingChanges. *)

Returned_ == bcPc = "returned"

\* both versions are there: an old symbol is given, and the new one is not the
\* nameless symbol that stands for a removal
BothPresent == Returned_ /\ bcOld # None /\ bcNew.name # ""

OldParams == ParametersOf(bcOld[1])
NewParams == ParametersOf(bcNew)

\* the parameters of the old version whose name the new version lacks
RemovedParams == SelectSeq(OldParams, LAMBDA q : ~HasName(NewParams, q.name))

SignaturesDiffer == bcOld[1].signature # bcNew.signature
ParametersDiffer == OldParams # NewParams
ReturnTypesDiffer == bcOld[1].returnType # bcNew.returnType

Verdict == bcResult[1]

\* C13: without an old symbol detectBreakingChanges returns null, whatever the
\* new symbol (its name may be empty) and the affected locations.
C13_NoOldSymbolNoVerdict ==
    (Returned_ /\ bcOld = None) => bcResult = None

\* the call returned for a nameless new symbol with parameters and locations
C13_Witness ==
    /\ Returned_
    /\ bcOld = None
    /\ bcNew.name = ""
    /\ bcNew.parameters # None
    /\ bcNew.signature = ""
    /\ Len(bcLocations) > 0

\* C14: when the new version lacks a parameter of the old version, the verdict
\* has changeType 'parameter' and severity 'critical', and its description
\* lists the names of the removed parameters.
C14_RemovedParameterIsCritical ==
    (BothPresent /\ Len(RemovedParams) > 0) =>
        /\ bcResult # None
        /\ Verdict.changeType = "parameter"
        /\ Verdict.severity = "critical"
        /\ Verdict.description = "Parameters removed: " \o Join(Names(RemovedParams))

\* the new parameter list is the old one followed by optional parameters of
\* new names
OnlyOptionalAdded ==
    /\ Len(NewParams) > Len(OldParams)
    /\ SubSeq(NewParams, 1, Len(OldParams)) = OldParams
    /\ \A i \in (Len(OldParams) + 1)..Len(NewParams) :
          NewParams[i].optional /\ ~HasName(OldParams, NewParams[i].name)

\* C15: when the new version only adds optional parameters to the old
\* parameter list, the verdict has severity 'safe'.
C15_OptionalParameterIsSafe ==
    (BothPresent /\ OnlyOptionalAdded) =>
        (bcResult # None /\ Verdict.severity = "safe")

\* C16: with both versions there, the verdict is the first found of signature,
\* parameter and return-type change: 'signature' whenever the signatures
\* differ ('critical' if one of them is unknown, else 'warning'), 'parameter'
\* exactly when the signatures are equal and the parameters differ, 'type'
\* exactly when only the return types differ, and null when nothing differs.
C16_FirstVerdictWins ==
    BothPresent =>
        /\ SignaturesDiffer =>
              /\ bcResult # None
              /\ Verdict.changeType = "signature"
              /\ Verdict.severity =
                    IF Falsy(bcOld[1].signature) \/ Falsy(bcNew.signature)
                    THEN "critical" ELSE "warning"
        /\ (~SignaturesDiffer /\ ParametersDiffer) =>
              (bcResult # None /\ Verdict.changeType = "parameter")
        /\ (~SignaturesDiffer /\ ~ParametersDiffer /\ ReturnTypesDiffer) =>
              (bcResult # None /\ Verdict.changeType = "type")
        /\ (~SignaturesDiffer /\ ~ParametersDiffer /\ ~ReturnTypesDiffer) =>
              bcResult = None

\* signatures, parameters and return types all differ, and the verdict is the
\* signature change
C16_Witness ==
    /\ BothPresent
    /\ ~Falsy(bcOld[1].signature) /\ ~Falsy(bcNew.signature)
    /\ SignaturesDiffer
    /\ Len(RemovedParams) > 0
    /\ ReturnTypesDiffer
    /\ bcResult # None
    /\ Verdict.changeType = "signature"
    /\ Verdict.severity = "warning"

-----------------------------------------------------------------------------
(* Vocabulary of the claims about the ChangeDetector. *)

\* the versions of the identity of the symbol among the recorded ones, in order
VersionsOf(symbol) ==
    SelectSeq(recorded, LAMBDA v : Identity(v) = Identity(symbol))

\* C20: getLastSymbol returns the version recorded before the last one of the
\* symbol's identity, and undefined when fewer than two versions of that
\* identity were recorded; versions of other identities do not count.
C20_LastSymbolIsPrevious ==
    (cdDone.op = "getLastSymbol") =>
        LET vs == VersionsOf(cdDone.symbol[1])
        IN  cdDone.ret = IF Len(vs) >= 2 THEN Some(vs[Len(vs) - 1]) ELSE None

\* f was recorded twice in a row in the same version after another version,
\* with a record of another identity in between, and getLastSymbol returned
\* the version equal to the current one
C20_Witness ==
    /\ cdDone.op = "getLastSymbol"
    /\ cdDone.symbol = Some(FullF2)
    /\ recorded = <<FullF1, FullF2, FullClassF, FullF2>>
    /\ cdDone.ret = Some(FullF2)

-----------------------------------------------------------------------------
(* Vocabulary of the claims about the impact reports. *)

Report == impact[1]

\* the dependents of the edited symbol: the symbols with an edge to it
DependentsOfEdited == getDependents(G, Report.symbol)

\* the distinct files that hold them
DependentFiles == {DependentsOfEdited[i].file : i \in 1..Len(DependentsOfEdited)}

BaseWeight(type) == IF type = "delete" THEN 50 ELSE IF type = "modify" THEN 30 ELSE 10

\* the dependents rated 'critical': all of them for a delete, none otherwise
CriticalDependents == IF Report.type = "delete" THEN Len(DependentsOfEdited) ELSE 0

\* C17: the risk score of a report is min(100, base + min(5 F, 30) + 10 B + 5 C)
\* with base 50, 30 or 10 by edit type, F the number of distinct files that
\* hold dependents of the edited symbol, B the number of breaking changes of
\* the report and C the number of dependents rated 'critical'.
C17_RiskScoreFormula ==
    impact # None =>
        Report.riskScore =
            Min(100, BaseWeight(Report.type)
                     + Min(5 * Cardinality(DependentFiles), 30)
                     + 10 * Len(Report.breakingChanges)
                     + 5 * CriticalDependents)

\* C18: a report for a delete edit, from analyzeDelete or from analyzeEdit on
\* a change that only removes text, never has estimatedEffort 'low'.
C18_DeleteIsNeverLowEffort ==
    (impact # None /\ Report.type = "delete") => Report.estimatedEffort # "low"

\* analyzeEdit reported a delete of a symbol that no edge touches
C18_Witness ==
    /\ impactCall.op = "analyzeEdit"
    /\ impact # None
    /\ Report.type = "delete"
    /\ Len(Report.affectedFiles) = 0
    /\ Report.riskScore = 50
    /\ Report.estimatedEffort = "medium"

\* C19: content-change events that follow each other within the debounce
\* window lead to one analysis pass, started only after DEBOUNCE_MS without a
\* further edit, and not to one analysis per event: every call of analyzeEdit
\* or analyzeDelete is made at least DEBOUNCE_MS after the change it analyses
\* and after the last buffered change, and no event is analysed on its own
\* outside a pass.
C19_EditsAreDebounced ==
    \A i \in 1..Len(analyses) :
        /\ analyses[i].at >= analyses[i].change.at + DEBOUNCE_MS
        /\ analyses[i].at >= analyses[i].lastBuffered + DEBOUNCE_MS
        /\ analyses[i].pass \in 1..passes

-----------------------------------------------------------------------------
\* the edges of the edge list that go out of the node with key k, in order
OutEdges(k) == SelectSeq(edges, LAMBDA e : getSymbolKey(e.from) = k)

\* C25: in every state reachable by addNode, addEdge, removeNode and clear the
\* adjacency index agrees with the edge list: the index entry of every node
\* key holds exactly the edges of the edge list whose from-key is that key,
\* and no index entry holds an edge that is not in the edge list.
C25_IndexAgreesWithEdges ==
    /\ \A k \in DOMAIN nodes :
          k \in DOMAIN nodeEdges /\ nodeEdges[k] = OutEdges(k)
    /\ \A k \in DOMAIN nodeEdges : \A i \in 1..Len(nodeEdges[k]) :
          \E j \in 1..Len(edges) : edges[j] = nodeEdges[k][i]

-----------------------------------------------------------------------------
\* the version list of a key, empty when the key has none
VersionList(h, key) == IF key \in DOMAIN h THEN h[key] ELSE <<>>

\* whether two versions differ in signature, serialized parameters or return type
Differ(old, new) ==
    \/ old.signature # new.signature
    \/ JSONStringifyOptional(old.parameters) # JSONStringifyOptional(new.parameters)
    \/ old.returnType # new.returnType

\* C29: recordSymbol appends the symbol to the version list of its identity,
\* and appends a CodeChange (of the symbol against the previous version)
\* exactly when a previous version of that identity exists and differs from
\* the new one in signature, serialized parameters or return type; no step
\* shortens or alters a version list, and clearChanges empties the change log
\* and alters no version list.
C29_RecordSymbolAppends ==
    [][/\ \A k \in DOMAIN symbolHistory :
             /\ k \in DOMAIN symbolHistory'
             /\ Len(symbolHistory'[k]) >= Len(symbolHistory[k])
             /\ SubSeq(symbolHistory'[k], 1, Len(symbolHistory[k])) = symbolHistory[k]
       /\ (recorded' # recorded) =>
             LET s == recorded'[Len(recorded')]
                 before == VersionsOf(s)
                 previous == before[Len(before)]
             IN  /\ VersionList(symbolHistory', historyKey(s)) = Append(before, s)
                 /\ \A k \in DOMAIN symbolHistory' \ {historyKey(s)} :
                       k \in DOMAIN symbolHistory /\ symbolHistory'[k] = symbolHistory[k]
                 /\ IF Len(before) > 0 /\ Differ(previous, s)
                    THEN /\ Len(changes') = Len(changes) + 1
                         /\ SubSeq(changes', 1, Len(changes)) = changes
                         /\ changes'[Len(changes')].symbol = s
                         /\ changes'[Len(changes')].oldSymbol = previous
                    ELSE changes' = changes
       /\ (cdDone'.op = "clearChanges" /\ recorded' = recorded) =>
             changes' = <<>> /\ symbolHistory' = symbolHistory
      ]_vars

\* recordSymbol has logged a change of the return type alone, and clearChanges
\* has then emptied the log under two recorded versions
C29_Witness ==
    /\ recorded = <<FullF1, FullF3, FullF3>>
    /\ cdDone.op = "clearChanges"
    /\ changes = <<>>
    /\ Len(VersionList(symbolHistory, historyKey(FullF1))) = 3

-----------------------------------------------------------------------------
\* the parameters of the new version whose name the old version lacks
AddedParams == SelectSeq(NewParams, LAMBDA q : ~HasName(OldParams, q.name))

\* no two parameters of the list have the same name
DistinctNames(params) ==
    \A i, j \in 1..Len(params) : params[i].name = params[j].name => i = j

\* some parameter name occurs in both versions with different declared types
TypeChanged ==
    \E i \in 1..Len(OldParams), j \in 1..Len(NewParams) :
        /\ OldParams[i].name = NewParams[j].name
        /\ OldParams[i].type # NewParams[j].type

\* C30: when the signatures are equal, no parameter was removed, no required
\* parameter was added and some parameter present in both versions has a
\* different declared type, the verdict has changeType 'parameter' and
\* severity 'warning' (for parameter lists without repeated names).
C30_TypeChangeIsWarning ==
    (/\ BothPresent
     /\ DistinctNames(OldParams) /\ DistinctNames(NewParams)
     /\ ~SignaturesDiffer
     /\ Len(RemovedParams) = 0
     /\ \A i \in 1..Len(AddedParams) : AddedParams[i].optional
     /\ TypeChanged) =>
        /\ bcResult # None
        /\ Verdict.changeType = "parameter"
        /\ Verdict.severity = "warning"

-----------------------------------------------------------------------------
\* the edges of the graph whose target is the edited symbol
IncomingEdges ==
    SelectSeq(edges, LAMBDA e : getSymbolKey(e.to) = getSymbolKey(Report.symbol))

\* the edges that go out of the edited symbol to another symbol
OutgoingEdges ==
    SelectSeq(edges, LAMBDA e :
        /\ getSymbolKey(e.from) = getSymbolKey(Report.symbol)
        /\ getSymbolKey(e.to) # getSymbolKey(Report.symbol))

\* C26: the affectedFiles entries of a report stand one for one for the edges
\* whose target is the edited symbol, each with the file of the dependent the
\* edge comes from; an edge going out of the edited symbol gives no entry and
\* adds nothing to the risk score.
C26_OnlyDependentsAreAffected ==
    impact # None =>
        /\ Len(Report.affectedFiles) = Len(IncomingEdges)
        /\ \A i \in 1..Len(IncomingEdges) :
              Report.affectedFiles[i].file = IncomingEdges[i].from.file
        /\ Report.riskScore =
              Min(100, BaseWeight(Report.type)
                       + Min(5 * Len(IncomingEdges), 30)
                       + 10 * Len(Report.breakingChanges)
                       + 5 * (IF Report.type = "delete" THEN Len(IncomingEdges) ELSE 0))

-----------------------------------------------------------------------------
\* C21: the loader of a lazily registered parser is not invoked before
\* getParser or getParserForFile asks for its language, and it is invoked at
\* most once per language: later requests, also those made while the first
\* load is pending, reuse the loaded parser.
C21_LoaderInvokedOnce ==
    \A l \in Languages :
        /\ loaderCalls[l] > 0 => l \in requested
        /\ loaderCalls[l] <= 1

-----------------------------------------------------------------------------
(* Vocabulary of the claims about updateGraph. *)

Completed == upDone.op = "updateGraph"

\* C23: after updateGraph(file) completes for a file that has a registered
\* parser, whose parse succeeds and for which the cache held no valid entry,
\* the parser was invoked for the file, its result was handed to the cache,
\* and every symbol of the parse result is a node of the graph.
C23_UpdateGraphParsesAndStores ==
    (/\ Completed
     /\ upDone.hasParser
     /\ upDone.file \notin parseThrows
     /\ ~upDone.cacheValid) =>
        /\ \E i \in 1..Len(parseCalls) : parseCalls[i] = upDone.file
        /\ \E i \in 1..Len(setCalls) : setCalls[i] = upDone.file
        /\ \A i \in 1..Len(parse(upDone.file).symbols) :
              getSymbolKey(parse(upDone.file).symbols[i]) \in DOMAIN nodes

\* C24: updateGraph never ends with an exception, and for a file without a
\* registered parser or whose parse throws it returns and leaves the nodes
\* and edges of the graph as they were.
C24_UpdateGraphNeverThrows ==
    Completed =>
        /\ upDone.outcome = "returned"
        /\ (~upDone.hasParser \/ upDone.file \in parseThrows) =>
              (nodes = upDone.before.nodes /\ edges = upDone.before.edges)

\* updateGraph completed on a graph with an edge, with a lazily loaded parser,
\* for a file whose parse throws
C24_Witness ==
    /\ Completed
    /\ upDone.hasParser
    /\ upDone.file \in parseThrows
    /\ loaderCalls["typescript"] >= 1
    /\ Len(edges) >= 1
    /\ upDone.outcome = "returned"

-----------------------------------------------------------------------------
\* C22: analyzeEdit and analyzeDelete end without an exception: when no parser
\* is available, no symbol is found at the edit position or a step of the
\* body throws, they return null, and the call leaves the graph and the
\* symbol history as they were.
C22_NoImpactOnFailure ==
    [][(impactCall' # impactCall) =>
          /\ (~impactCall'.hasParser \/ impactCall'.found = None \/ impactCall'.thrown)
                => impact' = None
          /\ nodes' = nodes /\ edges' = edges /\ nodeEdges' = nodeEdges
          /\ symbolHistory' = symbolHistory /\ changes' = changes
      ]_vars

\* analyzeDelete returned null without a parser, on a graph with edges and a
\* history with versions, for a position that holds a symbol
C22_Witness ==
    /\ impactCall.op = "analyzeDelete"
    /\ ~impactCall.hasParser
    /\ impactCall.found # None
    /\ impact = None
    /\ Len(edges) >= 2
    /\ Len(recorded) >= 2

-----------------------------------------------------------------------------
\* the versions of the edited symbol's identity that the history holds
EarlierVersions == VersionsOf(Report.symbol)

\* the most recently recorded of them
MostRecent == EarlierVersions[Len(EarlierVersions)]

\* C27: when the history holds at least one recorded version of the identity
\* of the symbol found at the edit position, and the signature of the most
\* recently recorded one differs from the found symbol's, the report of
\* analyzeEdit holds exactly one BreakingChange, the signature change from
\* that version to the found symbol.
C27_BreakingChangeAgainstLastVersion ==
    (/\ impactCall.op = "analyzeEdit"
     /\ impact # None
     /\ Len(EarlierVersions) >= 1
     /\ MostRecent.signature # Report.symbol.signature) =>
        /\ Len(Report.breakingChanges) = 1
        /\ Report.breakingChanges[1].changeType = "signature"
        /\ Report.breakingChanges[1].description =
              "Signature changed from \"" \o OrUnknown(MostRecent.signature)
              \o "\" to \"" \o OrUnknown(Report.symbol.signature) \o "\""

-----------------------------------------------------------------------------
\* the calls a pass of analyzeChanges has made, as places in the history
PassCalls(pass) ==
    {i \in 1..Len(analyses) : analyses[i].by = "pass" /\ analyses[i].pass = pass}

\* C28: at most one edit analysis is in progress at any time: at most one
\* caller is suspended at an await of analyzeEdit or analyzeDelete, a
\* suspended pass is the pass started last, and every call of a pass comes
\* before every call of the passes started after it
C28_OneAnalysisAtATime ==
    /\ Len(awaiting) <= 1
    /\ \A i \in 1..Len(awaiting) :
          awaiting[i].by = "pass" => awaiting[i].pass = passes
    /\ \A p \in 1..passes, q \in 1..passes :
          p < q => \A i \in PassCalls(p), j \in PassCalls(q) : i < j

\* a first pass has made two calls, an edit has arrived after it, and the
\* second pass is suspended at its first call
C28_Witness ==
    /\ passes = 2
    /\ Cardinality(PassCalls(1)) >= 2
    /\ Len(awaiting) = 1
    /\ awaiting[1].by = "pass"
    /\ awaiting[1].pass = 2
    /\ \E j \in PassCalls(2) : \A i \in PassCalls(1) :
          analyses[j].change.at > analyses[i].at

-----------------------------------------------------------------------------
\* the call returned and an old symbol was given; the new symbol may be the
\* nameless one that stands for a removal
OldPresent == Returned_ /\ bcOld # None

\* the parameters the new version added that are not optional
AddedRequiredParams == SelectSeq(AddedParams, LAMBDA q : ~q.optional)

\* C31: when an old symbol is given and the new version lacks a parameter of
\* the old version or has a parameter of a new name that is not optional,
\* detectBreakingChanges returns a verdict, and its severity is not 'safe'.
C31_IncompatibleParametersNeverSafe ==
    (OldPresent /\ (Len(RemovedParams) > 0 \/ Len(AddedRequiredParams) > 0)) =>
        (bcResult # None /\ Verdict.severity # "safe")

\* equal signatures; the new version lacks a parameter of the old one and
\* also has a new optional parameter; the verdict is 'critical'
C31_Witness ==
    /\ BothPresent
    /\ ~SignaturesDiffer
    /\ Len(RemovedParams) > 0
    /\ \E i \in 1..Len(AddedParams) : AddedParams[i].optional
    /\ bcResult # None
    /\ Verdict.changeType = "parameter"
    /\ Verdict.severity = "critical"

-----------------------------------------------------------------------------
\* the entries of the cache under other keys than key
OtherEntries(c, key) == {c[i] : i \in {j \in 1..Len(c) : c[j].key # key}}

-----------------------------------------------------------------------------
\* the key's most recent set lies more than the time-to-live back
Outlived(key) ==
    /\ lruOptions.ttlMs.given
    /\ setAt[key] # <<>>
    /\ now - setAt[key][1] > lruOptions.ttlMs.ms

\* the call that has just completed returned a value (get) or true (has)
Found_ ==
    IF lruDone'.op = "has" THEN lruDone'.ret = TRUE ELSE lruDone'.ret # Undefined

\* C33: get and has find a key only while it is held and its most recent set
\* lies at most ttlMs back, however often it was read in between; the read
\* that finds a key past its time-to-live removes it; a read that finds the
\* key in time makes it the most recent key and keeps the keys held.
C33_ReadsDoNotExtendLifetime ==
    [][\A k \in LruKeys :
          ( /\ lruDone'.op \in {"get", "has"}
            /\ lruDone'.key = k
            /\ lruDone'.before = lruCache
            /\ now' = now ) =>
             LET held == k \in KeySet(lruCache)
             IN  /\ Found_ => (held /\ ~Outlived(k))
                 /\ (held /\ Outlived(k)) => (~Found_ /\ k \notin KeySet(lruCache'))
                 /\ (held /\ ~Outlived(k)) =>
                       /\ Found_
                       /\ KeySet(lruCache') = KeySet(lruCache)
                       /\ lruCache'[Len(lruCache')].key = k
      ]_vars

\* a key set before another key and read since (it is the more recent of the
\* two) has outlived its time-to-live, and the get that found it removed it
C33_Witness ==
    /\ lruDone.op = "get"
    /\ lruDone.ret = Undefined
    /\ lruOptions.ttlMs.given
    /\ lruOptions.ttlMs.ms >= 1
    /\ Len(lruDone.before) = 2
    /\ lruDone.before[2].key = lruDone.key
    /\ lruDone.before[2].timestamp < lruDone.before[1].timestamp
    /\ lruDone.key \notin KeySet(lruCache)
    /\ Len(lruCache) = 1

-----------------------------------------------------------------------------
\* the get in place c resumes from its await and returns in this step
GetReturnsNow(c) ==
    /\ inflight[c].op = "get"
    /\ inflight[c].pc = "resume"
    /\ inflight'[c].op = "none"
    /\ done'.op = "get"

\* C34: under any interleaving of get, set and file writes, a parse result
\* that get returns was stored by a set that found the file with the same
\* fingerprint as the one get compares.
C34_GetReturnsResultOfItsFingerprint ==
    [][\A c \in ConcurrentCallIds :
          (GetReturnsNow(c) /\ done'.ret # Null) =>
             fingerprintOf(inflight[c].origin) = fingerprintOf(inflight[c].file)
      ]_vars

\* C35: a get that began when nothing was held for the path, and resumes
\* after a set that began and wrote its entry in between, with the file as
\* that set and this get found it, leaves the entry and its fingerprint in
\* place.
C35_OverlappingGetKeepsEntry ==
    [][\A c \in ConcurrentCallIds :
          LET p == inflight[c].path
          IN  ( /\ GetReturnsNow(c)
                /\ inflight[c].cached = Undefined
                /\ LRUHas(cache, p)
                /\ inflight[c].file = files[p]
                /\ lastSet[p].file = files[p] ) =>
                   /\ LRUHas(cache', p)
                   /\ LRUEntry(cache', p) = LRUEntry(cache, p)
                   /\ MapGet(fileFingerprints', p) = MapGet(fileFingerprints, p)
      ]_vars

-----------------------------------------------------------------------------
\* C36: whenever no call of the cache is pending, the paths with a stored
\* fingerprint are the paths the memory cache holds, so the fingerprint map
\* holds no more paths than the cache's capacity.
C36_FingerprintsMatchCache ==
    AllIdle =>
        /\ DOMAIN fileFingerprints = KeySet(cache)
        /\ Cardinality(DOMAIN fileFingerprints) <= MemoryCacheOptions.maxSize

-----------------------------------------------------------------------------
\* C37: every call a pass of analyzeChanges makes passes the document the
\* change occurred in, and the report stored as currentEdit of the active
\* file is about a change that occurred in that file.
C37_ChangesAnalyzedInTheirDocument ==
    /\ \A i \in 1..Len(analyses) :
          analyses[i].by = "pass" => analyses[i].file = analyses[i].change.file
    /\ (activeFile # None /\ activeFile[1].currentEdit # None) =>
          activeFile[1].currentEdit[1].change.file = activeFile[1].file

-----------------------------------------------------------------------------
\* C38: once every trackFile call has ended, each with a parse result, the
\* active file is the document of the call begun last, whatever the order
\* the calls ended in.
C38_ActiveFileIsLastSwitch ==
    (tracking = <<>> /\ ~switched.failed) =>
        (activeFile # None /\ activeFile[1].file = switched.last)

-----------------------------------------------------------------------------
\* C39: whenever canParse(file) is true, a call of getParserForFile(file)
\* returns a parser or awaits a loader (and returns the parser the loader
\* resolves to), after any register, registerLazy, unregister and clear.
C39_CanParseImpliesParser ==
    [][\A f \in FilePaths :
          (GetParserForFile(f) /\ canParse(extensionMap, f)) =>
             \/ parserDone'.parser # None
             \/ /\ Len(loading') = Len(loading) + 1
                /\ loading'[Len(loading')].file = f
      ]_vars

-----------------------------------------------------------------------------
\* the severities of the affected files of a report, in order
Severities(report) ==
    [i \in 1..Len(report.affectedFiles) |-> report.affectedFiles[i].severity]

\* what the other deletion path returns for the arguments of the call made:
\* analyzeEdit for a call of analyzeDelete, and analyzeDelete for analyzeEdit
OtherPath ==
    IF impactCall.op = "analyzeDelete"
    THEN analyzeEdit(G, symbolHistory, impactCall.file, impactCall.change,
                     impactCall.hasParser, impactCall.found, impactCall.thrown)
    ELSE analyzeDelete(G, impactCall.file, impactCall.hasParser, impactCall.found,
                       impactCall.thrown)

\* C40: for a change that only removes text, analyzeDelete and analyzeEdit
\* report, for the same symbol, graph and history, the same severities of the
\* affected files, the same breaking changes, the same risk score and the
\* same effort.
C40_DeletePathsAgree ==
    (/\ impactCall.op \in {"analyzeDelete", "analyzeEdit"}
     /\ detectChangeType(impactCall.change) = "delete") =>
        /\ (impact = None) <=> (OtherPath = None)
        /\ impact # None =>
              /\ Severities(Report) = Severities(OtherPath[1])
              /\ Report.breakingChanges = OtherPath[1].breakingChanges
              /\ Report.riskScore = OtherPath[1].riskScore
              /\ Report.estimatedEffort = OtherPath[1].estimatedEffort

====
